---- MODULE Spec2Model ----
(***************************************************************************)
(* Buffered, retrying delivery pipeline of the CanIGoIn background script  *)
(* (src/extension/background.js, second script of the file, lines 959 ff). *)
(*                                                                         *)
(* The script runs on one JavaScript event loop.  Every action below is    *)
(* one macrotask: an event handler, a timer callback or the continuation   *)
(* of an `await` (storage read/write, fetch), run to its next suspension.  *)
(* Local backup is modelled for the default enableLocalBackup = true.      *)
(***************************************************************************)
EXTENDS Integers, Sequences, FiniteSets, TLC

(* ------------------------------ bounds --------------------------------- *)
MaxEvents == 2          \* entries that enter logBuffer in one run of Spec
MaxBatchSize == 2       \* CONFIG.batchSize ranges over 1..MaxBatchSize
MaxBufferSize == 2      \* CONFIG.maxBufferSize ranges over 1..MaxBufferSize
MaxRetries == 2         \* CONFIG.maxRetries ranges over 1..MaxRetries
EntryJsonLength == 4    \* JSON.stringify(entry).length of every entry
MaxLocalStorage == 16   \* CONFIG.maxLocalStorageSize
DrainEvents == 3        \* entries that enter logBuffer in one run of DrainSpec
MaxBackupEntries == 12  \* entries handed to saveToLocalBackup in one run of BackupSpec
MaxResets == 1          \* clearStatistics messages in one run of StatsSpec
MaxQueryLen == 2        \* query parameters of a URL handed to sanitizeData
MaxTokens == 3          \* tokens of a copied or clipboard-written sample
RecoverEvents == 4      \* network requests in one run of RecoverSpec
PageEvents == 5         \* navigation and script events in one run of PageSpec

VARIABLES
  CONFIG,                 \* the configuration options the pipeline reads
  extensionMonitoringEnabled,
  logBuffer,              \* in-memory buffer of entries, oldest first
  failedBatches,          \* dead-letter list of /api/logs payloads
  scheduledFlushTimeout,  \* TRUE while the handle of the debounce timer is set
  flushTimers,            \* delays of the pending debounce timers, in scheduling order
  statistics,             \* counters
  logBackup,              \* chrome.storage.local 'logBackup'
  flushes,                \* sendLogBatch invocations that have not returned
  sends,                  \* sendWithRetry attempts whose fetch is in flight
  retryTimers,            \* pending setTimeout(sendWithRetry(payload, attempt+1))
  sendTimers,             \* pending setTimeout(() => sendLogBatch(), 1000)
  nextId,                 \* id of the next entry to enter logBuffer
  eventsLeft,             \* entries the environment still produces in this run
  batches,                \* history: every batch taken by sendLogBatch, in order
  delivered,              \* history: entries accepted by the collector, in order
  tries,                  \* history: attempts made for a payload since attempt 0
  lastOutcome,            \* history: outcome of the last attempt, per entry id
  arg,                    \* the argument of the function a run applies on its own
  ret                     \* what that function returned, None before the call

\* the options: no action of this model changes them
options == <<CONFIG, extensionMonitoringEnabled>>

vars == <<CONFIG, extensionMonitoringEnabled, eventsLeft, logBuffer, failedBatches,
          scheduledFlushTimeout, flushTimers, statistics, logBackup, flushes, sends,
          retryTimers, sendTimers, nextId,
          batches, delivered, tries, lastOutcome, arg, ret>>

\* a function applied on its own: no handler of the pipeline changes these
call == <<arg, ret>>

(* ------------------------------ helpers -------------------------------- *)
Min(a, b) == IF a < b THEN a ELSE b

Ids(s) == {s[i].id : i \in 1..Len(s)}

\* Array.prototype.slice(-n) for n >= 1: the last n elements
SliceLast(s, n) == IF Len(s) <= n THEN s ELSE SubSeq(s, Len(s) - n + 1, Len(s))

RECURSIVE Concat(_)
Concat(ss) == IF ss = <<>> THEN <<>> ELSE Head(ss) \o Concat(Tail(ss))

(* ------------------------------ entries -------------------------------- *)
\* An entry is [id, type, requestId, url]: `type` is entry.type || entry.event_type,
\* requestId / url tell whether the field is present (truthy).
NetworkEntry(i) == [id |-> i, type |-> "main_frame", requestId |-> TRUE, url |-> TRUE]
ClickfixEntry(i) == [id |-> i, type |-> "clickfix_detection", requestId |-> FALSE, url |-> TRUE]
JsEntry(i) == [id |-> i, type |-> "javascript_execution", requestId |-> FALSE, url |-> TRUE]
InstalledEntry(i) == [id |-> i, type |-> "extension_installed", requestId |-> FALSE, url |-> FALSE]
EnabledEntry(i) == [id |-> i, type |-> "extension_enabled", requestId |-> FALSE, url |-> FALSE]
ScanEntry(i) == [id |-> i, type |-> "extension_security_scan", requestId |-> FALSE, url |-> FALSE]

\* mutant of IsNetworkLog: every entry with a url counts as a network log
IsNetworkLogAnyUrl(e) == e.requestId \/ e.url

\* isNetworkLog in logEntry, and the networkLogs filter of sendLogBatch
IsNetworkLog(e) ==
  e.requestId \/ (e.url /\ e.type # "clickfix_detection" /\ e.type # "javascript_execution")

IsSecurityEvent(e) == e.type \in {"clickfix_detection", "extension_security_scan"}

\* endpoint an entry of a batch is posted to
Route(e) == IF IsNetworkLog(e) THEN "/api/logs"
            ELSE IF IsSecurityEvent(e) THEN "/api/security"
            ELSE "/api/extensions"

NetworkLogs(batch) == SelectSeq(batch, IsNetworkLog)

IsSpecial(e) == ~IsNetworkLog(e)
SpecialEvents(batch) == SelectSeq(batch, IsSpecial)

(* --------------------------- initial state ----------------------------- *)
BatchInterval == 5000   \* CONFIG.batchInterval as shipped, in ms
RetryDelay == 5000      \* CONFIG.retryDelay as shipped, in ms
DebounceCap == 5000     \* the cap on the debounce delay in logEntry, in ms

Outcomes == {"ok", "non2xx", "error"}

\* what the history records of an attempt's outcome
Recorded(o) == IF o \in {"ok", "timeout"} THEN o ELSE "failed"

Config(b, k, r, urls, js, cf) ==
  [batchSize |-> b, maxBufferSize |-> k, maxRetries |-> r,
   maxLocalStorageSize |-> MaxLocalStorage,
   batchInterval |-> BatchInterval, retryDelay |-> RetryDelay,
   sanitizeSensitiveData |-> TRUE, enableCompression |-> FALSE,
   enableReportUrls |-> urls, enableJsExecution |-> js, enableClickfix |-> cf]

\* the statistics object with every counter at zero: the literal of the module
\* level and of clearStatistics.  Times are counted in readings of Date.now():
\* sessionStart is the reading taken, lastUploadTime 0 stands for null.
ZeroStatistics(now) ==
  [totalRequests |-> 0, loggedRequests |-> 0, successfulUploads |-> 0,
   failedUploads |-> 0, bytesLogged |-> 0, bufferSize |-> 0,
   extensionInstalls |-> 0, extensionEvents |-> 0,
   sessionStart |-> now, lastUploadTime |-> 0]

\* the module-level state of the background script as it is loaded
InitState(configs, monitoring, n) ==
  /\ CONFIG \in configs
  /\ extensionMonitoringEnabled \in monitoring
  /\ eventsLeft = n
  /\ logBuffer = <<>>
  /\ failedBatches = <<>>
  /\ scheduledFlushTimeout = FALSE
  /\ flushTimers = <<>>
  /\ statistics = ZeroStatistics(0)
  /\ logBackup = <<>>
  /\ flushes = {}
  /\ sends = {}
  /\ retryTimers = {}
  /\ sendTimers = 0
  /\ nextId = 1
  /\ batches = <<>>
  /\ delivered = <<>>
  /\ tries = [p \in 1..n |-> 0]
  /\ lastOutcome = [i \in 1..n |-> "none"]

None == <<>>

\* the state once the script has been loaded and the stored options read
InitWith(configs, monitoring, n) ==
  /\ InitState(configs, monitoring, n)
  /\ arg = None
  /\ ret = None

\* every reporting feature on, the numeric options over their ranges
Init ==
  InitWith({Config(b, k, r, TRUE, TRUE, TRUE) :
              b \in 1..MaxBatchSize, k \in 1..MaxBufferSize, r \in 1..MaxRetries},
           {TRUE}, MaxEvents)

(* ------------------- synchronous part of the handlers ------------------ *)
\* The module-level state a synchronous handler reads and writes.
M == [logBuffer |-> logBuffer, statistics |-> statistics,
      scheduledFlushTimeout |-> scheduledFlushTimeout, flushTimers |-> flushTimers,
      flushes |-> flushes, batches |-> batches, nextId |-> nextId]

Apply(m) ==
  /\ logBuffer' = m.logBuffer
  /\ statistics' = m.statistics
  /\ scheduledFlushTimeout' = m.scheduledFlushTimeout
  /\ flushTimers' = m.flushTimers
  /\ flushes' = m.flushes
  /\ batches' = m.batches
  /\ nextId' = m.nextId

\* logBuffer.splice(0, CONFIG.batchSize): the value returned ...
TakeBatch(buf) == SubSeq(buf, 1, Min(CONFIG.batchSize, Len(buf)))

\* mutant of AfterTake: slice for splice, the batch stays in logBuffer
AfterTakeKeepsBatch(buf) == buf

\* ... and what splice leaves in logBuffer
AfterTake(buf) == SubSeq(buf, Min(CONFIG.batchSize, Len(buf)) + 1, Len(buf))

\* sendLogBatch up to its first await (the storage read of saveToLocalBackup)
sendLogBatch(m) ==
  IF Len(m.logBuffer) = 0 THEN m
  ELSE LET batch == TakeBatch(m.logBuffer)
           rest == AfterTake(m.logBuffer)
       IN [m EXCEPT !.logBuffer = rest,
                    !.statistics = [@ EXCEPT !.bufferSize = Len(rest)],
                    !.flushes = @ \cup {[fid |-> Len(m.batches) + 1, batch |-> batch,
                                         pc |-> "backupGet", newLogs |-> <<>>, i |-> 0,
                                         url |-> ""]},
                    !.batches = Append(@, batch)]

\* mutant of Gated: enableReportUrls off drops every entry
GatedByReportUrls(entry) ==
  \/ entry.type = "clickfix_detection" /\ ~CONFIG.enableClickfix
  \/ entry.type = "javascript_execution" /\ ~CONFIG.enableJsExecution
  \/ ~CONFIG.enableReportUrls

\* the feature toggles at the head of logEntry
Gated(entry) ==
  \/ entry.type = "clickfix_detection" /\ ~CONFIG.enableClickfix
  \/ entry.type = "javascript_execution" /\ ~CONFIG.enableJsExecution
  \/ IsNetworkLog(entry) /\ ~CONFIG.enableReportUrls

\* mutant of Evict: slice(0, maxBufferSize) keeps the oldest entries
EvictKeepsOldest(buf) ==
  IF Len(buf) > CONFIG.maxBufferSize THEN SubSeq(buf, 1, CONFIG.maxBufferSize) ELSE buf

\* "Prevent buffer overflow": logBuffer.slice(-CONFIG.maxBufferSize)
Evict(buf) ==
  IF Len(buf) > CONFIG.maxBufferSize THEN SliceLast(buf, CONFIG.maxBufferSize) ELSE buf

\* mutant of BufferFull: `>` for `>=`
BufferFullStrict(buf) == Len(buf) > CONFIG.batchSize

\* the size test of logEntry
BufferFull(buf) == Len(buf) >= CONFIG.batchSize

\* mutant of DebounceDelay: the delay is not capped
DebounceDelayUncapped == CONFIG.batchInterval

\* Math.min(CONFIG.batchInterval, 5000)
DebounceDelay == Min(CONFIG.batchInterval, DebounceCap)

\* "Debounced flush": a timer is set unless the handle says one is pending
ScheduleFlush(m) ==
  IF m.scheduledFlushTimeout THEN m
  ELSE [m EXCEPT !.scheduledFlushTimeout = TRUE,
                 !.flushTimers = Append(@, DebounceDelay)]

logEntry(m, entry) ==
  IF Gated(entry) THEN m
  ELSE LET buf == Evict(Append(m.logBuffer, entry))
           m1 == [m EXCEPT !.logBuffer = buf,
                           !.statistics = [@ EXCEPT !.loggedRequests = @ + 1,
                                                    !.bytesLogged = @ + EntryJsonLength,
                                                    !.bufferSize = Len(buf)],
                           !.nextId = @ + 1]
       IN IF BufferFull(buf) THEN sendLogBatch(m1)
          ELSE ScheduleFlush(m1)

\* logBuffer.push(entry) of the extension listeners: no logEntry
pushDirect(m, entry) ==
  [m EXCEPT !.logBuffer = Append(@, entry), !.nextId = @ + 1]

(* ---------------------------- event handlers --------------------------- *)
\* webNavigation.onCommitted of a user-initiated main-frame navigation:
\* logEntry(navigation entry), then totalRequests++ and loggedRequests++
OnCommitted ==
  /\ eventsLeft > 0
  /\ eventsLeft' = eventsLeft - 1
  /\ LET m == logEntry(M, NetworkEntry(nextId))
     IN Apply([m EXCEPT !.statistics = [@ EXCEPT !.totalRequests = @ + 1,
                                                 !.loggedRequests = @ + 1]])
  /\ UNCHANGED <<options, call, failedBatches, logBackup, sends,
                 retryTimers, sendTimers, delivered, tries, lastOutcome>>

\* onMessage logJavaScriptExecution
LogJavaScriptExecution ==
  /\ eventsLeft > 0
  /\ eventsLeft' = eventsLeft - 1
  /\ Apply(logEntry(M, JsEntry(nextId)))
  /\ UNCHANGED <<options, call, failedBatches, logBackup, sends,
                 retryTimers, sendTimers, delivered, tries, lastOutcome>>

\* mutant of LogClickfixDetection: the handler leaves the flush to logEntry
LogClickfixDetectionBuffered ==
  /\ eventsLeft > 0
  /\ eventsLeft' = eventsLeft - 1
  /\ Apply(logEntry(M, ClickfixEntry(nextId)))
  /\ UNCHANGED <<options, call, failedBatches, logBackup, sends,
                 retryTimers, sendTimers, delivered, tries, lastOutcome>>

\* onMessage logClickfixDetection: logEntry, then sendLogBatch
LogClickfixDetection ==
  /\ eventsLeft > 0
  /\ eventsLeft' = eventsLeft - 1
  /\ Apply(sendLogBatch(logEntry(M, ClickfixEntry(nextId))))
  /\ UNCHANGED <<options, call, failedBatches, logBackup, sends,
                 retryTimers, sendTimers, delivered, tries, lastOutcome>>

\* management.onInstalled: push, count, setTimeout(sendLogBatch, 1000)
OnInstalled ==
  /\ eventsLeft > 0
  /\ eventsLeft' = eventsLeft - 1
  /\ extensionMonitoringEnabled
  /\ LET m == pushDirect(M, InstalledEntry(nextId))
     IN Apply([m EXCEPT !.statistics = [@ EXCEPT !.extensionInstalls = @ + 1]])
  /\ sendTimers' = sendTimers + 1
  /\ UNCHANGED <<options, call, failedBatches, logBackup, sends, retryTimers,
                 delivered, tries, lastOutcome>>

\* management.onEnabled: push and count, no flush is scheduled
OnEnabled ==
  /\ eventsLeft > 0
  /\ eventsLeft' = eventsLeft - 1
  /\ extensionMonitoringEnabled
  /\ LET m == pushDirect(M, EnabledEntry(nextId))
     IN Apply([m EXCEPT !.statistics = [@ EXCEPT !.extensionEvents = @ + 1]])
  /\ UNCHANGED <<options, call, failedBatches, logBackup, sends,
                 retryTimers, sendTimers, delivered, tries, lastOutcome>>

\* scanAllExtensions once getAllExtensions has resolved (alarm 'scanExtensions',
\* message scanExtensions, start of monitoring): push of the scan report
ScanAllExtensions ==
  /\ eventsLeft > 0
  /\ eventsLeft' = eventsLeft - 1
  /\ Apply(pushDirect(M, ScanEntry(nextId)))
  /\ UNCHANGED <<options, call, failedBatches, logBackup, sends,
                 retryTimers, sendTimers, delivered, tries, lastOutcome>>

\* the callback of setTimeout(() => sendLogBatch(), 1000)
SendTimerFire ==
  /\ sendTimers > 0
  /\ sendTimers' = sendTimers - 1
  /\ Apply(sendLogBatch(M))
  /\ UNCHANGED <<options, call, eventsLeft, failedBatches, logBackup, sends, retryTimers,
                 delivered, tries, lastOutcome>>

\* the debounce callback scheduled by logEntry
DebouncedFlush ==
  /\ flushTimers # <<>>
  /\ LET m == [M EXCEPT !.scheduledFlushTimeout = FALSE, !.flushTimers = Tail(@)]
     IN Apply(IF Len(m.logBuffer) > 0 THEN sendLogBatch(m) ELSE m)
  /\ UNCHANGED <<options, call, eventsLeft, failedBatches, logBackup,
                 sends, retryTimers, sendTimers, delivered, tries, lastOutcome>>

\* mutant of AlarmFlushLogs: the alarm only persists the counters
AlarmWithoutFlush ==
  /\ Len(logBuffer) > 0
  /\ UNCHANGED vars

\* chrome.alarms 'flushLogs' (updateStatistics only persists the counters)
AlarmFlushLogs ==
  /\ Len(logBuffer) > 0
  /\ Apply(sendLogBatch(M))
  /\ UNCHANGED <<options, call, eventsLeft, failedBatches, logBackup,
                 sends, retryTimers, sendTimers, delivered, tries, lastOutcome>>

\* onMessage flushLogs
FlushLogsMessage ==
  /\ Len(logBuffer) > 0
  /\ Apply(sendLogBatch(M))
  /\ UNCHANGED <<options, call, eventsLeft, failedBatches, logBackup,
                 sends, retryTimers, sendTimers, delivered, tries, lastOutcome>>

\* chrome.runtime.onSuspend
OnSuspend ==
  /\ Len(logBuffer) > 0
  /\ Apply(sendLogBatch(M))
  /\ UNCHANGED <<options, call, eventsLeft, failedBatches, logBackup,
                 sends, retryTimers, sendTimers, delivered, tries, lastOutcome>>

(* ----------------------- saveToLocalBackup steps ----------------------- *)
\* JSON.stringify(logs).length: brackets, entries, separating commas
JsonLength(logs) ==
  IF Len(logs) = 0 THEN 2 ELSE 2 + Len(logs) * EntryJsonLength + (Len(logs) - 1)

\* "Limit backup size": drop Math.floor(length * 0.2) oldest entries when too large
LimitBackup(newLogs) ==
  IF JsonLength(newLogs) > CONFIG.maxLocalStorageSize
  THEN SubSeq(newLogs, ((Len(newLogs) * 2) \div 10) + 1, Len(newLogs))
  ELSE newLogs

\* `endpoint` of the special-events loop, as the path that replaces '/api/logs'
\* in CONFIG.serverUrl
Endpoint(event) == IF IsSecurityEvent(event) THEN "/api/security" ELSE "/api/extensions"

\* path of CONFIG.serverUrl, the targetUrl of every sendWithRetry call
ServerUrl == "/api/logs"

\* the fetch of specialEvents[i] is issued, or the loop (and sendLogBatch) ends
SpecialStep(f, i) ==
  IF i > Len(SpecialEvents(f.batch)) THEN {}
  ELSE {[f EXCEPT !.pc = "special", !.i = i, !.url = Endpoint(SpecialEvents(f.batch)[i])]}

Reverse(q) == [j \in 1..Len(q) |-> q[Len(q) + 1 - j]]

\* mutant of Payload: the logs in reverse batch order
PayloadReversed(f) == [pid |-> f.fid, logs |-> Reverse(NetworkLogs(f.batch))]

\* the payload sendLogBatch builds from the network logs of its batch
Payload(f) == [pid |-> f.fid, logs |-> NetworkLogs(f.batch)]

\* sendLogBatch after `await saveToLocalBackup(batch)`: first network request
AfterBackup(f) ==
  IF Len(NetworkLogs(f.batch)) > 0
  THEN /\ flushes' = (flushes \ {f}) \cup {[f EXCEPT !.pc = "net"]}
       /\ sends' = sends \cup {[payload |-> Payload(f), attempt |-> 0, owner |-> f.fid,
                                url |-> ServerUrl]}
       /\ tries' = [tries EXCEPT ![f.fid] = 1]
  ELSE /\ flushes' = (flushes \ {f}) \cup SpecialStep(f, 1)
       /\ UNCHANGED <<sends, tries>>

\* mutant of BackupGetDone: saveToLocalBackup is not awaited, the first request
\* of the batch is issued while the backup write is still to be made
BackupGetSendsEarly(f) ==
  /\ f.pc = "backupGet"
  /\ flushes' = (flushes \ {f}) \cup
                  {[f EXCEPT !.pc = "backupSet", !.newLogs = LimitBackup(logBackup \o f.batch)]}
  /\ sends' = sends \cup
                IF Len(NetworkLogs(f.batch)) > 0
                THEN {[payload |-> Payload(f), attempt |-> 0, owner |-> 0, url |-> ServerUrl]}
                ELSE {}
  /\ UNCHANGED <<options, call, logBuffer, failedBatches, scheduledFlushTimeout, flushTimers,
                 statistics,
                 logBackup, retryTimers, sendTimers, nextId, eventsLeft, batches,
                 delivered, tries, lastOutcome>>

\* chrome.storage.local.get(['logBackup']) resolved
BackupGetDone(f) ==
  /\ f.pc = "backupGet"
  /\ flushes' = (flushes \ {f}) \cup
                  {[f EXCEPT !.pc = "backupSet", !.newLogs = LimitBackup(logBackup \o f.batch)]}
  /\ UNCHANGED <<options, call, logBuffer, failedBatches, scheduledFlushTimeout, flushTimers,
                 statistics,
                 logBackup, sends, retryTimers, sendTimers, nextId, eventsLeft, batches,
                 delivered, tries, lastOutcome>>

\* chrome.storage.local.set({ logBackup: newLogs }) resolved
BackupSetDone(f) ==
  /\ f.pc = "backupSet"
  /\ logBackup' = f.newLogs
  /\ AfterBackup(f)
  /\ UNCHANGED <<options, call, logBuffer, failedBatches, scheduledFlushTimeout, flushTimers,
                 statistics,
                 retryTimers, sendTimers, nextId, eventsLeft, batches, delivered, lastOutcome>>

\* either storage call rejected: caught and logged by saveToLocalBackup
BackupFailed(f) ==
  /\ f.pc \in {"backupGet", "backupSet"}
  /\ AfterBackup(f)
  /\ UNCHANGED <<options, call, logBuffer, failedBatches, scheduledFlushTimeout, flushTimers,
                 statistics,
                 logBackup, retryTimers, sendTimers, nextId, eventsLeft, batches, delivered,
                 lastOutcome>>

(* ------------------- sendWithRetry / retryFailedBatches ---------------- *)
\* mutant of MayRetry: off by one
MayRetryOnceMore(attempt) == attempt < CONFIG.maxRetries

\* `attempt < CONFIG.maxRetries - 1`
MayRetry(attempt) == attempt < CONFIG.maxRetries - 1

\* mutant of NextDelay: the same delay before every retry
NextDelayConstant(attempt) == CONFIG.retryDelay

\* the delay of the retry timer set after attempt `attempt` has failed
NextDelay(attempt) == CONFIG.retryDelay * (attempt + 1)

\* the flush awaiting this sendWithRetry chain goes on to its special events
Resume(owner) ==
  IF owner = 0 THEN flushes
  ELSE LET f == CHOOSE g \in flushes : g.fid = owner
       IN (flushes \ {f}) \cup SpecialStep(f, 1)

SetOutcome(logs, o) ==
  [i \in DOMAIN lastOutcome |-> IF i \in Ids(logs) THEN Recorded(o) ELSE lastOutcome[i]]

\* mutant of Drained: pop() for shift()
DrainedNewest(fb) == fb[Len(fb)]

\* retryFailedBatches: failedBatches.shift()
Drained(fb) == Head(fb)

\* mutant of SendSucceeded: retryFailedBatches reads failedBatches[0] and leaves
\* it in the list
SendSucceededKeepsDeadLetter(s) ==
  /\ statistics' = [statistics EXCEPT !.successfulUploads = @ + 1,
                                      !.lastUploadTime = statistics.sessionStart + 1]
  /\ delivered' = delivered \o s.payload.logs
  /\ lastOutcome' = SetOutcome(s.payload.logs, "ok")
  /\ IF Len(failedBatches) = 0
     THEN /\ sends' = sends \ {s}
          /\ flushes' = Resume(s.owner)
          /\ UNCHANGED <<failedBatches, tries>>
     ELSE /\ failedBatches' = failedBatches
          /\ sends' = (sends \ {s}) \cup
                        {[payload |-> Drained(failedBatches), attempt |-> 0, owner |-> s.owner,
                          url |-> ServerUrl]}
          /\ tries' = [tries EXCEPT ![Drained(failedBatches).pid] = 1]
          /\ UNCHANGED flushes
  /\ UNCHANGED retryTimers

\* response.ok: count, then retryFailedBatches
SendSucceeded(s) ==
  /\ statistics' = [statistics EXCEPT !.successfulUploads = @ + 1,
                                      !.lastUploadTime = statistics.sessionStart + 1]
  /\ delivered' = delivered \o s.payload.logs
  /\ lastOutcome' = SetOutcome(s.payload.logs, "ok")
  /\ IF Len(failedBatches) = 0
     THEN /\ sends' = sends \ {s}
          /\ flushes' = Resume(s.owner)
          /\ UNCHANGED <<failedBatches, tries>>
     ELSE /\ failedBatches' = Tail(failedBatches)
          /\ sends' = (sends \ {s}) \cup
                        {[payload |-> Drained(failedBatches), attempt |-> 0, owner |-> s.owner,
                          url |-> ServerUrl]}
          /\ tries' = [tries EXCEPT ![Drained(failedBatches).pid] = 1]
          /\ UNCHANGED flushes
  /\ UNCHANGED retryTimers

\* mutant of SendFailed: once the retries are exhausted the catch block calls
\* retryFailedBatches before it records the payload
SendFailedThenDrains(s, o) ==
  /\ statistics' = [statistics EXCEPT !.failedUploads = @ + 1]
  /\ lastOutcome' = SetOutcome(s.payload.logs, o)
  /\ IF MayRetry(s.attempt)
     THEN /\ retryTimers' = retryTimers \cup {[payload |-> s.payload, attempt |-> s.attempt + 1,
                                       delay |-> NextDelay(s.attempt)]}
          /\ sends' = sends \ {s}
          /\ flushes' = Resume(s.owner)
          /\ UNCHANGED <<failedBatches, tries>>
     ELSE IF failedBatches = <<>>
     THEN /\ failedBatches' = <<s.payload>>
          /\ sends' = sends \ {s}
          /\ flushes' = Resume(s.owner)
          /\ UNCHANGED <<retryTimers, tries>>
     ELSE /\ failedBatches' = Append(Tail(failedBatches), s.payload)
          /\ sends' = (sends \ {s}) \cup
                        {[payload |-> Head(failedBatches), attempt |-> 0, owner |-> s.owner,
                          url |-> ServerUrl]}
          /\ tries' = [tries EXCEPT ![Head(failedBatches).pid] = 1]
          /\ UNCHANGED <<retryTimers, flushes>>
  /\ UNCHANGED delivered

\* the catch block of sendWithRetry
SendFailed(s, o) ==
  /\ statistics' = [statistics EXCEPT !.failedUploads = @ + 1]
  /\ lastOutcome' = SetOutcome(s.payload.logs, o)
  /\ sends' = sends \ {s}
  /\ flushes' = Resume(s.owner)
  /\ IF MayRetry(s.attempt)
     THEN /\ retryTimers' = retryTimers \cup {[payload |-> s.payload, attempt |-> s.attempt + 1,
                                       delay |-> NextDelay(s.attempt)]}
          /\ UNCHANGED failedBatches
     ELSE /\ failedBatches' = Append(failedBatches, s.payload)
          /\ UNCHANGED retryTimers
  /\ UNCHANGED <<delivered, tries>>

\* the fetch of a sendWithRetry attempt settles: 2xx, non-2xx or transport error
SendResponse(s, o) ==
  /\ s \in sends
  /\ IF o = "ok" THEN SendSucceeded(s) ELSE SendFailed(s, o)
  /\ UNCHANGED <<options, call, logBuffer, scheduledFlushTimeout, flushTimers, logBackup, sendTimers,
                 nextId, eventsLeft, batches>>

\* mutant of AbortEnabled: the abort never reaches the fetch
AbortNever(s) == FALSE

\* fetchWithTimeout: controller.abort() after fetchTimeoutMs rejects the fetch
\* (no caller passes options.signal, so the controller's signal is the one used)
AbortEnabled(s) == TRUE

SendTimeout(s) ==
  /\ s \in sends
  /\ AbortEnabled(s)
  /\ SendFailed(s, "timeout")
  /\ UNCHANGED <<options, call, logBuffer, scheduledFlushTimeout, flushTimers, logBackup, sendTimers,
                 nextId, eventsLeft, batches>>

\* the retry callback: sendWithRetry(payload, attempt + 1), not awaited by anyone
RetryTimerFire(t) ==
  /\ t \in retryTimers
  /\ retryTimers' = retryTimers \ {t}
  /\ sends' = sends \cup {[payload |-> t.payload, attempt |-> t.attempt, owner |-> 0,
                           url |-> ServerUrl]}
  /\ tries' = [tries EXCEPT ![t.payload.pid] = @ + 1]
  /\ UNCHANGED <<options, call, logBuffer, failedBatches, scheduledFlushTimeout, flushTimers,
                 statistics,
                 logBackup, flushes, sendTimers, nextId, eventsLeft, batches, delivered, lastOutcome>>

(* --------------------- special events of a batch ----------------------- *)
CurrentSpecial(f) == SpecialEvents(f.batch)[f.i]

\* mutant of SpecialSettled: the try/catch encloses the whole loop, a rejection
\* ends it
SpecialSettledStopsOnError(f, o) ==
  /\ f \in flushes
  /\ f.pc = "special"
  /\ lastOutcome' = [lastOutcome EXCEPT ![CurrentSpecial(f).id] = Recorded(o)]
  /\ delivered' = IF o = "ok" THEN Append(delivered, CurrentSpecial(f)) ELSE delivered
  /\ flushes' = (flushes \ {f}) \cup (IF o = "ok" THEN SpecialStep(f, f.i + 1) ELSE {})
  /\ UNCHANGED <<options, call, logBuffer, failedBatches, scheduledFlushTimeout, flushTimers,
                 statistics,
                 logBackup, sends, retryTimers, sendTimers, nextId, eventsLeft, batches, tries>>

\* the fetch of one special event settles; a rejection is caught and logged,
\* the response status is not looked at; the loop goes on with the next event
SpecialSettled(f, o) ==
  /\ f \in flushes
  /\ f.pc = "special"
  /\ lastOutcome' = [lastOutcome EXCEPT ![CurrentSpecial(f).id] = Recorded(o)]
  /\ delivered' = IF o = "ok" THEN Append(delivered, CurrentSpecial(f)) ELSE delivered
  /\ flushes' = (flushes \ {f}) \cup SpecialStep(f, f.i + 1)
  /\ UNCHANGED <<options, call, logBuffer, failedBatches, scheduledFlushTimeout, flushTimers,
                 statistics,
                 logBackup, sends, retryTimers, sendTimers, nextId, eventsLeft, batches, tries>>

SpecialResponse(f, o) == SpecialSettled(f, o)

SpecialTimeout(f) == AbortEnabled(f) /\ SpecialSettled(f, "timeout")

(* ---------------------------- specification ---------------------------- *)
Next ==
  \/ OnCommitted
  \/ LogJavaScriptExecution
  \/ LogClickfixDetection
  \/ OnInstalled
  \/ OnEnabled
  \/ ScanAllExtensions
  \/ SendTimerFire
  \/ DebouncedFlush
  \/ AlarmFlushLogs
  \/ FlushLogsMessage
  \/ OnSuspend
  \/ \E f \in flushes : BackupGetDone(f)
  \/ \E f \in flushes : BackupSetDone(f)
  \/ \E f \in flushes : BackupFailed(f)
  \/ \E s \in sends, o \in Outcomes : SendResponse(s, o)
  \/ \E s \in sends : SendTimeout(s)
  \/ \E t \in retryTimers : RetryTimerFire(t)
  \/ \E f \in flushes, o \in Outcomes : SpecialResponse(f, o)
  \/ \E f \in flushes : SpecialTimeout(f)

Spec == Init /\ [][Next]_vars

\* a longer run under one configuration: a buffer of one entry below the batch
\* size (every flush is started by a timer or a message), two attempts per payload,
\* URL reporting on, JS-execution and clickfix reporting off
InitDrain == InitWith({Config(2, 1, 2, TRUE, FALSE, FALSE)}, {TRUE}, DrainEvents)

DrainSpec == InitDrain /\ [][Next]_vars

\* setTimeout callbacks run: the abort timer of every pending fetch fires.
\* Nothing is assumed about the collector answering.
LiveSpec ==
  /\ Spec
  /\ WF_vars(\E s \in sends : SendTimeout(s))
  /\ WF_vars(\E f \in flushes : SpecialTimeout(f))

\* mutant of ClearStatistics: the upload counters survive the reset
ClearStatisticsKeepsUploads ==
  /\ statistics.sessionStart < MaxResets
  /\ statistics' = [ZeroStatistics(statistics.sessionStart + 1) EXCEPT
                      !.successfulUploads = statistics.successfulUploads,
                      !.failedUploads = statistics.failedUploads]
  /\ UNCHANGED <<options, call, eventsLeft, logBuffer, failedBatches, scheduledFlushTimeout,
                 flushTimers, logBackup, flushes, sends, retryTimers, sendTimers, nextId,
                 batches, delivered, tries, lastOutcome>>

\* onMessage clearStatistics: a fresh statistics object, stamped with Date.now(),
\* which reads later than the stamp it replaces
ClearStatistics ==
  /\ statistics.sessionStart < MaxResets
  /\ statistics' = ZeroStatistics(statistics.sessionStart + 1)
  /\ UNCHANGED <<options, call, eventsLeft, logBuffer, failedBatches, scheduledFlushTimeout,
                 flushTimers, logBackup, flushes, sends, retryTimers, sendTimers, nextId,
                 batches, delivered, tries, lastOutcome>>

StatsNext == Next \/ ClearStatistics

\* the pipeline under the largest numeric options of Spec, with statistics resets
InitStats ==
  InitWith({Config(MaxBatchSize, MaxBufferSize, MaxRetries, TRUE, TRUE, TRUE)},
           {TRUE}, MaxEvents)

StatsSpec == InitStats /\ [][StatsNext]_vars

\* the three reporting flags over all their values, under the largest numeric
\* options of Spec
InitGate ==
  InitWith({Config(MaxBatchSize, MaxBufferSize, MaxRetries, urls, js, cf) :
              urls \in BOOLEAN, js \in BOOLEAN, cf \in BOOLEAN},
           {TRUE}, MaxEvents)

GateSpec == InitGate /\ [][Next]_vars

(* ----------------------------- sanitizeData ----------------------------- *)
\* A URL string is [ok, normal, query]: whether new URL() parses it, whether it is
\* already what URL.toString() prints, and its query as name/value pairs in order.
Redacted == "[REDACTED]"

SensitiveParams == <<"password", "token", "key", "secret", "api_key", "apikey", "auth">>

SensitiveHeaders == {"authorization", "cookie", "x-api-key"}

\* String.prototype.toLowerCase on the header names that occur
toLowerCase(name) == IF name = "Authorization" THEN "authorization" ELSE name

\* URLSearchParams.has
Has(query, name) == \E i \in 1..Len(query) : query[i].name = name

\* mutant of SearchParamsSet: only the first pair of the name is rewritten
SearchParamsSetFirstOnly(query, name, value) ==
  LET i == CHOOSE k \in 1..Len(query) :
             query[k].name = name /\ \A j \in 1..(k - 1) : query[j].name # name
  IN [query EXCEPT ![i].value = value]

\* URLSearchParams.set: the first pair of the name takes the value, the later
\* pairs of the name are removed
SearchParamsSet(query, name, value) ==
  LET i == CHOOSE k \in 1..Len(query) :
             query[k].name = name /\ \A j \in 1..(k - 1) : query[j].name # name
  IN SubSeq(query, 1, i - 1) \o <<[name |-> name, value |-> value]>>
       \o SelectSeq(SubSeq(query, i + 1, Len(query)), LAMBDA p : p.name # name)

\* the forEach over the sensitive parameter names, from the k-th name on
RECURSIVE RedactParams(_, _)
RedactParams(query, k) ==
  IF k > Len(SensitiveParams) THEN query
  ELSE RedactParams(IF Has(query, SensitiveParams[k])
                    THEN SearchParamsSet(query, SensitiveParams[k], Redacted)
                    ELSE query,
                    k + 1)

\* the try block: new URL(sanitized.url) throws on a malformed URL, otherwise the
\* url is replaced by url.toString()
SanitizeUrl(url) ==
  IF ~url.ok THEN url
  ELSE [url EXCEPT !.normal = TRUE, !.query = RedactParams(url.query, 1)]

SanitizeHeaders(headers) ==
  [i \in 1..Len(headers) |->
     IF toLowerCase(headers[i].name) \in SensitiveHeaders
     THEN [headers[i] EXCEPT !.value = Redacted]
     ELSE headers[i]]

sanitizeData(data) ==
  IF ~CONFIG.sanitizeSensitiveData THEN data
  ELSE [url |-> SanitizeUrl(data.url), requestHeaders |-> SanitizeHeaders(data.requestHeaders)]

\* sequences of at most n elements of S
RECURSIVE SeqsUpTo(_, _)
SeqsUpTo(S, n) ==
  IF n = 0 THEN {<<>>}
  ELSE LET shorter == SeqsUpTo(S, n - 1)
       IN shorter \cup {Append(q, x) : q \in shorter, x \in S}

\* the entries handed to sanitizeData: a URL with up to MaxQueryLen parameters,
\* two of them sensitive names, and at most one request header
SanitizeInputs ==
  [url : [ok : BOOLEAN, normal : BOOLEAN,
          query : SeqsUpTo([name : {"token", "auth", "q"}, value : {"a", "b"}], MaxQueryLen)],
   requestHeaders : SeqsUpTo([name : {"Authorization", "accept"}, value : {"a", "b"}], 1)]

\* `const sanitized = sanitizeData(entry)` of logEntry: what is pushed to logBuffer
SanitizeData ==
  /\ ret = None
  /\ ret' = <<sanitizeData(arg[1])>>
  /\ UNCHANGED <<options, arg, eventsLeft, logBuffer, failedBatches, scheduledFlushTimeout,
                 flushTimers, statistics, logBackup, flushes, sends, retryTimers,
                 sendTimers, nextId, batches, delivered, tries, lastOutcome>>

InitSanitize ==
  /\ InitState({Config(1, 1, 1, TRUE, TRUE, TRUE)}, {TRUE}, 0)
  /\ arg \in {<<data>> : data \in SanitizeInputs}
  /\ ret = None

SanitizeSpec == InitSanitize /\ [][SanitizeData]_vars

(* ------------------------- the /api/logs payload ------------------------ *)
\* JavaScript values are written as their JSON text: "true", "false", "null", and
\* Undefined for a property that is not there. An entry is a function from the
\* property names it has.
Undefined == "undefined"

Null == "null"

Falsy == {Undefined, Null, "false", ""}

\* log.f
Get(log, f) == IF f \in DOMAIN log THEN log[f] ELSE Undefined

\* mutant of Or: the left operand whatever it is
OrLeft(a, b) == a

\* a || b
Or(a, b) == IF a \notin Falsy THEN a ELSE b

\* the filter predicate of networkLogs in sendLogBatch
IsNetworkLogEntry(log) ==
  \/ Get(log, "requestId") \notin Falsy
  \/ /\ Get(log, "url") \notin Falsy
     /\ Get(log, "type") # "clickfix_detection"
     /\ Get(log, "type") # "javascript_execution"

\* the object networkLogs.map builds for one entry
NetworkLog(log) ==
  [requestId |-> Or(Get(log, "requestId"), ""),
   url |-> Or(Get(log, "url"), ""),
   method |-> Or(Get(log, "method"), "GET"),
   type |-> Or(Get(log, "type"), "other"),
   blocked |-> Or(Get(log, "blocked"), "false"),
   block_reason |-> Or(Or(Get(log, "blockReason"), Get(log, "block_reason")), Null)]

\* JSON.stringify on an object: a property whose value is undefined is left out
DropUndefined(obj) ==
  [f \in {g \in DOMAIN obj : obj[g] # Undefined} |-> obj[f]]

\* the body of the /api/logs request: JSON.stringify(payload); sessionId, the
\* timestamp and the user agent are written as the name of their field
LogsBody(networkLogs, clientId) ==
  LET logs == [i \in 1..Len(networkLogs) |-> DropUndefined(NetworkLog(networkLogs[i]))]
  IN [f \in {"client_id", "session_id", "timestamp", "user_agent", "logs"} |->
        IF f = "logs" THEN logs
        ELSE IF f = "client_id" THEN Or(clientId, Null)
        ELSE f]

\* the /api/logs requests sendLogBatch makes for a batch: none without network logs
LogsRequests(batch, clientId) ==
  LET networkLogs == SelectSeq(batch, IsNetworkLogEntry)
  IN IF Len(networkLogs) > 0 THEN <<LogsBody(networkLogs, clientId)>> ELSE <<>>

\* the sets of properties an entry may have
Optional(f, values) == {<<>>} \cup {f :> v : v \in values}

PayloadEntries ==
  {t @@ r @@ u @@ m @@ b @@ br @@ bl :
     t \in Optional("type", {"script", "clickfix_detection"}),
     r \in Optional("requestId", {"r1"}),
     u \in Optional("url", {"u1"}),
     m \in Optional("method", {"POST"}),
     b \in Optional("blocked", {"true", "false"}),
     br \in Optional("blockReason", {"policy"}),
     bl \in Optional("block_reason", {"legacy"})}

\* sendLogBatch from the filter to the body of the first request
BuildPayload ==
  /\ ret = None
  /\ ret' = <<LogsRequests(arg[1], arg[2])>>
  /\ UNCHANGED <<options, arg, eventsLeft, logBuffer, failedBatches, scheduledFlushTimeout,
                 flushTimers, statistics, logBackup, flushes, sends, retryTimers,
                 sendTimers, nextId, batches, delivered, tries, lastOutcome>>

InitPayload ==
  /\ InitState({Config(MaxBatchSize, MaxBufferSize, 1, TRUE, TRUE, TRUE)}, {TRUE}, 0)
  /\ arg \in {<<batch, clientId>> : batch \in SeqsUpTo(PayloadEntries, MaxBatchSize),
                                     clientId \in {Null, "client"}}
  /\ ret = None

PayloadSpec == InitPayload /\ [][BuildPayload]_vars

(* ------------------------- requests of a batch ------------------------- *)
\* A request body is [gzip, json]: whether the bytes are gzip-compressed, and the
\* value they encode.
JsonStringify(data) == [gzip |-> FALSE, json |-> data]

\* compressData: `const str = JSON.stringify(data); return str;`
compressData(data) == JsonStringify(data)

ContentType == <<"Content-Type", "application/json">>

ContentEncoding == <<"Content-Encoding", "gzip">>

\* the fetch of sendWithRetry
LogsRequest(payload) ==
  [url |-> ServerUrl,
   headers |-> {ContentType} \cup (IF CONFIG.enableCompression THEN {ContentEncoding} ELSE {}),
   body |-> JsonStringify(payload)]

\* the fetch of the special-events loop for one event
SpecialRequest(event, clientId) ==
  LET eventType == Or(Or(Get(event, "type"), Get(event, "event_type")), "unknown_event")
      isSecurityEvent == eventType \in {"clickfix_detection", "extension_security_scan"}
  IN [url |-> IF isSecurityEvent THEN "/api/security" ELSE "/api/extensions",
      headers |-> {ContentType},
      body |-> JsonStringify([client_id |-> Or(clientId, Null), event_type |-> eventType,
                              data |-> event])]

IsSpecialEntry(log) == ~IsNetworkLogEntry(log)

\* every request sendLogBatch makes for a batch, in the order it makes them
BatchRequests(batch, clientId) ==
  LET logsBodies == LogsRequests(batch, clientId)
      specialEvents == SelectSeq(batch, IsSpecialEntry)
  IN [i \in 1..Len(logsBodies) |-> LogsRequest(logsBodies[i])]
       \o [i \in 1..Len(specialEvents) |-> SpecialRequest(specialEvents[i], clientId)]

\* sendLogBatch for one batch, as far as the requests it hands to fetch
SendRequests ==
  /\ ret = None
  /\ ret' = <<BatchRequests(arg[1], arg[2])>>
  /\ UNCHANGED <<options, arg, eventsLeft, logBuffer, failedBatches, scheduledFlushTimeout,
                 flushTimers, statistics, logBackup, flushes, sends, retryTimers,
                 sendTimers, nextId, batches, delivered, tries, lastOutcome>>

InitRequests ==
  /\ InitState({[Config(MaxBatchSize, MaxBufferSize, 1, TRUE, TRUE, TRUE)
                   EXCEPT !.enableCompression = c] : c \in BOOLEAN}, {TRUE}, 0)
  /\ arg \in {<<batch, Null>> : batch \in SeqsUpTo(PayloadEntries, MaxBatchSize)}
  /\ ret = None

RequestSpec == InitRequests /\ [][SendRequests]_vars

(* ------------------- clickfix detection (content.js) ------------------- *)
\* A sample is [pad, tokens, highEntropy]: pad white-space characters around
\* tokens joined by single spaces, and whether calculateEntropy of the trimmed
\* text exceeds 4.5. A token is [w, n], a word and its length in characters.
\* "text" is n characters of prose and "base64" a run of n base64-alphabet
\* characters followed by "=="; neither contains a marker. "obfuscated" stands for
\* $env:a='\x41'+'\u0041' and "url" for https://example.com/a.ps1.
Word(w, n) == [w |-> w, n |-> n]

Words ==
  {Word("powershell", 10), Word("iex", 3), Word("-EncodedCommand", 15),
   Word("-encodedcommand", 15), Word("-Enc", 4), Word("-ExecutionPolicy", 16),
   Word("Bypass", 6), Word("cmd", 3), Word("/c", 2), Word("mshta", 5),
   Word("Execute(", 8), Word("DownloadString(", 15), Word("eval(", 5),
   Word("curl", 4), Word("obfuscated", 22), Word("url", 25)}

TextLengths == {8, 22, 51, 600}

Base64Lengths == {54, 100}

Tokens ==
  Words \cup {Word("text", n) : n \in TextLengths} \cup {Word("base64", n) : n \in Base64Lengths}

TokenLength(t) == IF t.w = "base64" THEN t.n + 2 ELSE t.n

RECURSIVE SumLengths(_)
SumLengths(tokens) ==
  IF tokens = <<>> THEN 0 ELSE TokenLength(Head(tokens)) + SumLengths(Tail(tokens))

\* String.prototype.trim
Trim(sample) == [sample EXCEPT !.pad = 0]

\* .length
Length(sample) ==
  IF sample.tokens = <<>> THEN sample.pad
  ELSE sample.pad + SumLengths(sample.tokens) + Len(sample.tokens) - 1

\* the text holds one of the words
HasWord(code, ws) == \E i \in 1..Len(code.tokens) : code.tokens[i].w \in ws

\* a word of as, white space, a word of bs
Followed(code, as, bs) ==
  \E i \in 1..(Len(code.tokens) - 1) :
    code.tokens[i].w \in as /\ code.tokens[i + 1].w \in bs

\* a word of as and later a word of bs
Before(code, as, bs) ==
  \E i, j \in 1..Len(code.tokens) :
    i < j /\ code.tokens[i].w \in as /\ code.tokens[j].w \in bs

\* -EncodedCommand under the i flag
EncodedCommandAnyCase == {"-EncodedCommand", "-encodedcommand"}

\* mutant of FollowedByBase64: the run is never recognised
FollowedByBase64Never(code, as, n) == FALSE

\* white space and then a run of at least n base64 characters follows a word of as
FollowedByBase64(code, as, n) ==
  \E i \in 1..(Len(code.tokens) - 1) :
    /\ code.tokens[i].w \in as
    /\ code.tokens[i + 1].w = "base64"
    /\ code.tokens[i + 1].n >= n

\* the tags of the rules that hit, in rule order
Hits(rules) ==
  LET hit == SelectSeq(rules, LAMBDA r : r.hit)
  IN [i \in 1..Len(hit) |-> hit[i].tag]

Rule(tag, hit) == [tag |-> tag, hit |-> hit]

\* CLICKFIX_PATTERNS by family: the patterns some sample over Tokens can match,
\* each with the tag detectClickfix pushes for it
windowsExecutables(code) ==
  Hits(<<Rule("windows_exec_1", Followed(code, {"cmd"}, {"/c"})),
         Rule("windows_exec_3", Followed(code, {"mshta"}, {"url"}))>>)

vbscriptPatterns(code) ==
  Hits(<<Rule("vbscript_pattern_5", HasWord(code, {"Execute("}))>>)

\* powershell -ExecutionPolicy Bypass
PowershellBypass(code) ==
  \E i \in 1..(Len(code.tokens) - 2) :
    /\ code.tokens[i].w = "powershell"
    /\ code.tokens[i + 1].w = "-ExecutionPolicy"
    /\ code.tokens[i + 2].w = "Bypass"

\* the patterns of index 0..2, which score 20 more
powershellFlags(code) ==
  Hits(<<Rule("powershell_command_0", PowershellBypass(code)),
         Rule("powershell_command_1", Followed(code, {"powershell"}, EncodedCommandAnyCase)),
         Rule("powershell_command_2", Followed(code, {"powershell"}, {"-Enc"}))>>)

powershellCommands(code) ==
  powershellFlags(code) \o Hits(<<Rule("powershell_command_7", HasWord(code, {"iex"}))>>)

base64Patterns(code) ==
  Hits(<<Rule("base64_encoded_command",
              \E i \in 1..Len(code.tokens) :
                 code.tokens[i].w = "base64" /\ code.tokens[i].n >= 100),
         Rule("base64_encoded_command", FollowedByBase64(code, EncodedCommandAnyCase, 50))>>)

suspiciousDownloads(code) ==
  Hits(<<Rule("suspicious_download_0", HasWord(code, {"url"}))>>)

\* cmd /c ... powershell
CmdThenPowershell(code) ==
  \E i, j \in 1..Len(code.tokens) :
    /\ code.tokens[i].w = "cmd"
    /\ i + 1 < j
    /\ code.tokens[i + 1].w = "/c"
    /\ code.tokens[j].w = "powershell"

clickfixPatterns(code) ==
  Hits(<<Rule("clickfix_pattern", Before(code, {"iex"}, {"DownloadString("})),
         Rule("clickfix_pattern", HasWord(code, EncodedCommandAnyCase)),
         Rule("clickfix_pattern", HasWord(code, {"-Enc"})),
         Rule("clickfix_pattern", Before(code, {"-ExecutionPolicy"}, {"Bypass"})),
         Rule("clickfix_pattern", CmdThenPowershell(code))>>)

javascriptPatterns(code) ==
  Hits(<<Rule("javascript_pattern_7", HasWord(code, {"eval("}))>>)

\* sum of matches.length over obfuscationPatterns
obfuscationCount(code) == IF HasWord(code, {"obfuscated"}) THEN 4 ELSE 0

\* the state of detectClickfix before the threshold test: riskScore and issues
Scored(code) ==
  LET codeTrimmed == Trim(code)
      isPowerShell == HasWord(code, {"powershell", "iex"})
      windows == windowsExecutables(code)
      vbscript == vbscriptPatterns(code)
      isWindowsExec == windows # <<>>
      isVbScript == vbscript # <<>>
      isTerminalCode == isPowerShell \/ isWindowsExec \/ isVbScript
      base64Matches == Len(base64Patterns(code))
      patterns ==
        (IF isPowerShell THEN <<"powershell_command">> ELSE <<>>)
          \o windows \o vbscript \o powershellCommands(code) \o base64Patterns(code)
          \o suspiciousDownloads(code) \o clickfixPatterns(code) \o javascriptPatterns(code)
          \o (IF obfuscationCount(code) > 3 THEN <<"high_obfuscation">> ELSE <<>>)
          \o (IF Length(codeTrimmed) > 200 /\ isTerminalCode THEN <<"long_terminal_command">>
              ELSE IF Length(codeTrimmed) > 500 THEN <<"long_code_block">> ELSE <<>>)
          \o (IF codeTrimmed.highEntropy THEN <<"high_entropy">> ELSE <<>>)
      patternScore ==
        (IF isPowerShell THEN 30 ELSE 0)
          + 28 * Len(windows) + 35 * Len(vbscript)
          + 25 * Len(powershellCommands(code)) + 20 * Len(powershellFlags(code))
          + 30 * Len(base64Patterns(code)) + 25 * Len(suspiciousDownloads(code))
          + 35 * Len(clickfixPatterns(code)) + 15 * Len(javascriptPatterns(code))
          + (IF obfuscationCount(code) > 3 THEN 25 ELSE 0)
          + (IF Length(codeTrimmed) > 200 /\ isTerminalCode THEN 15
             ELSE IF Length(codeTrimmed) > 500 THEN 10 ELSE 0)
          + (IF codeTrimmed.highEntropy THEN 20 ELSE 0)
      powershellBase64 == isPowerShell /\ base64Matches > 0
      iexDownload == HasWord(codeTrimmed, {"iex"}) /\ HasWord(codeTrimmed, {"DownloadString("})
      encodedFlag == HasWord(codeTrimmed, {"-EncodedCommand", "-Enc"})
      chain == isWindowsExec /\ isVbScript
  IN [riskScore |-> patternScore
                     + (IF Len(patterns) >= 3 THEN 25 ELSE 0)
                     + (IF powershellBase64 THEN 40 ELSE 0)
                     + (IF iexDownload THEN 45 ELSE 0)
                     + (IF encodedFlag THEN 40 ELSE 0)
                     + (IF chain THEN 40 ELSE 0),
      issues |-> patterns
                   \o (IF powershellBase64 THEN <<"powershell_base64_combo">> ELSE <<>>)
                   \o (IF iexDownload THEN <<"iex_download_combo">> ELSE <<>>)
                   \o (IF encodedFlag THEN <<"encoded_command_flag">> ELSE <<>>)
                   \o (IF chain THEN <<"cmd_vbscript_chain">> ELSE <<>>),
      type |-> IF isPowerShell THEN "powershell"
               ELSE IF isWindowsExec THEN "windows_exec"
               ELSE IF isVbScript THEN "vbscript" ELSE "unknown",
      isPowerShell |-> isPowerShell,
      isTerminalCode |-> isTerminalCode]

\* Math.min(score, 100)
Clamp(score) == Min(score, 100)

\* mutant of detectClickfix: one tag is enough for a terminal-like text
detectClickfixOneTag(code) ==
  IF Length(code) = 0 THEN <<>>
  ELSE LET scored == Scored(code)
           codeTrimmed == Trim(code)
           threshold == IF scored.isTerminalCode THEN 40 ELSE 50
       IN IF scored.riskScore >= threshold \/ (scored.isTerminalCode /\ Len(scored.issues) >= 1)
          THEN <<[riskScore |-> Clamp(scored.riskScore),
                  issues |-> scored.issues,
                  codePreview |-> Min(Length(codeTrimmed), 500),
                  codeLength |-> Length(codeTrimmed),
                  type |-> scored.type,
                  isPowerShell |-> scored.isPowerShell,
                  isTerminalCode |-> scored.isTerminalCode]>>
          ELSE <<>>

\* detectClickfix: <<>> for null, <<detection>> for a verdict; codePreview is
\* kept as its length
detectClickfix(code) ==
  IF Length(code) = 0 THEN <<>>
  ELSE LET scored == Scored(code)
           codeTrimmed == Trim(code)
           threshold == IF scored.isTerminalCode THEN 40 ELSE 50
       IN IF scored.riskScore >= threshold \/ (scored.isTerminalCode /\ Len(scored.issues) >= 2)
          THEN <<[riskScore |-> Clamp(scored.riskScore),
                  issues |-> scored.issues,
                  codePreview |-> Min(Length(codeTrimmed), 500),
                  codeLength |-> Length(codeTrimmed),
                  type |-> scored.type,
                  isPowerShell |-> scored.isPowerShell,
                  isTerminalCode |-> scored.isTerminalCode]>>
          ELSE <<>>

\* logClickfixDetection: the detections sent to the background for the text
logClickfixDetection(code) == detectClickfix(code)

\* /^https?:\/\/[^\s]+$/ on a trimmed text
IsUrlOnly(text) == Len(text.tokens) = 1 /\ text.tokens[1].w = "url"

\* mutant of TooShort: no floor
TooShortNever(text, floor) == FALSE

\* text.length < floor
TooShort(text, floor) == Length(text) < floor

\* mutant of Boost: the boost without the cap
BoostUncapped(detection, by, tag) ==
  [detection EXCEPT !.riskScore = @ + by, !.issues = Append(@, tag)]

\* detection.riskScore = Math.min(detection.riskScore + by, 100) and the pushed tag
Boost(detection, by, tag) ==
  [detection EXCEPT !.riskScore = Min(@ + by, 100), !.issues = Append(@, tag)]

\* what a handler did with a text: whether detectClickfix ran on it, the
\* detection object the handler held after its boost, and the detections that
\* went to the background in sendMessage
Outcome(source, evaluated, local, sent) ==
  [source |-> source, evaluated |-> evaluated, local |-> local, sent |-> sent]

checkClipboardWrite(text, isProgrammatic) ==
  LET source == "clipboard_writeText_api"
      trimmedText == Trim(text)
      detection == detectClickfix(trimmedText)
  IN IF Length(text) = 0 THEN Outcome(source, FALSE, <<>>, <<>>)
     ELSE IF TooShort(trimmedText, 20) THEN Outcome(source, FALSE, <<>>, <<>>)
     ELSE IF IsUrlOnly(trimmedText) THEN Outcome(source, FALSE, <<>>, <<>>)
     ELSE IF isProgrammatic /\ detection # <<>>
          THEN LET boosted == Boost(detection[1], 30, "programmatic_clipboard_write")
               IN Outcome(source, TRUE, <<boosted>>, <<boosted>>)
     ELSE IF detection # <<>> /\ detection[1].riskScore >= 70
          THEN Outcome(source, TRUE, detection, detection)
     ELSE Outcome(source, TRUE, detection, <<>>)

\* the 'copy' listener of monitorCopyEvents on the selected text
copyListener(selection) ==
  LET source == "copy_event"
      selectedText == Trim(selection)
      isPowerShell == HasWord(selectedText, {"powershell", "iex"})
      isWindowsExec == Followed(selectedText, {"cmd"}, {"/c"}) \/ HasWord(selectedText, {"mshta"})
      isVbScript == HasWord(selectedText, {"Execute("})
      isTerminalCode == isPowerShell \/ isWindowsExec \/ isVbScript
                          \/ HasWord(selectedText, {"curl", "url"})
      hasEncodedCommand == HasWord(selectedText, EncodedCommandAnyCase \cup {"-Enc"})
      hasExecutionPolicyBypass == Before(selectedText, {"-ExecutionPolicy"}, {"Bypass"})
      minLength == IF isTerminalCode THEN 20 ELSE 50
      minRiskScore == IF isPowerShell \/ isWindowsExec \/ isVbScript THEN 40 ELSE 60
      detection == detectClickfix(selectedText)
  IN IF Length(selectedText) = 0 THEN Outcome(source, FALSE, <<>>, <<>>)
     ELSE IF IsUrlOnly(selectedText) THEN Outcome(source, FALSE, <<>>, <<>>)
     ELSE IF TooShort(selectedText, 30) THEN Outcome(source, FALSE, <<>>, <<>>)
     ELSE IF ~(Length(selectedText) > minLength) THEN Outcome(source, FALSE, <<>>, <<>>)
     ELSE IF detection # <<>> /\ detection[1].riskScore >= minRiskScore
          THEN Outcome(source, TRUE,
                       IF hasEncodedCommand \/ hasExecutionPolicyBypass
                       THEN <<Boost(detection[1], 20, "encoded_command_or_bypass")>>
                       ELSE detection,
                       logClickfixDetection(selectedText))
     ELSE Outcome(source, TRUE, detection, <<>>)

\* the samples: calculateEntropy is at most log2 of the length, so a text of
\* fewer than 23 characters has no entropy above 4.5
Samples ==
  {sample \in [pad : {0, 2}, tokens : SeqsUpTo(Tokens, MaxTokens), highEntropy : BOOLEAN] :
     sample.highEntropy => Length(Trim(sample)) >= 23}

\* a direct call of detectClickfix on the text
DetectClickfix ==
  /\ ret = None
  /\ ret' = <<Outcome("detectClickfix", TRUE, detectClickfix(arg[1]), <<>>)>>
  /\ UNCHANGED <<options, arg, eventsLeft, logBuffer, failedBatches, scheduledFlushTimeout,
                 flushTimers, statistics, logBackup, flushes, sends, retryTimers,
                 sendTimers, nextId, batches, delivered, tries, lastOutcome>>

\* navigator.clipboard.writeText(text) seen by the content script
ClipboardWrite ==
  /\ ret = None
  /\ ret' = <<checkClipboardWrite(arg[1], arg[2])>>
  /\ UNCHANGED <<options, arg, eventsLeft, logBuffer, failedBatches, scheduledFlushTimeout,
                 flushTimers, statistics, logBackup, flushes, sends, retryTimers,
                 sendTimers, nextId, batches, delivered, tries, lastOutcome>>

\* a 'copy' event with the text selected
CopyEvent ==
  /\ ret = None
  /\ ret' = <<copyListener(arg[1])>>
  /\ UNCHANGED <<options, arg, eventsLeft, logBuffer, failedBatches, scheduledFlushTimeout,
                 flushTimers, statistics, logBackup, flushes, sends, retryTimers,
                 sendTimers, nextId, batches, delivered, tries, lastOutcome>>

ClickfixNext == DetectClickfix \/ ClipboardWrite \/ CopyEvent

InitClickfix ==
  /\ InitState({Config(1, 1, 1, TRUE, TRUE, TRUE)}, {TRUE}, 0)
  /\ arg \in {<<sample, isProgrammatic>> : sample \in Samples, isProgrammatic \in BOOLEAN}
  /\ ret = None

ClickfixSpec == InitClickfix /\ [][ClickfixNext]_vars

(* ------------------ repeated detections of one content ----------------- *)
DedupTtl == 15000       \* the time-to-live the README gives for clickfix alerts, in ms

\* contents detected, and the time from one detection to the next, in ms
Contents == {"a", "b"}

Elapsed == {DedupTtl \div 3, DedupTtl + 5000}

\* detectClickfix has flagged a text: logClickfixDetection of content.js sends the
\* message and the onMessage handler of background.js enqueues and flushes it.
\* arg is the list of the detections so far and ret holds the clock.
DetectedClickfix ==
  \E content \in Contents, elapsed \in Elapsed :
    /\ eventsLeft > 0
    /\ eventsLeft' = eventsLeft - 1
    /\ Apply(sendLogBatch(logEntry(M, ClickfixEntry(nextId))))
    /\ arg' = Append(arg, [id |-> nextId, content |-> content, time |-> ret[1] + elapsed])
    /\ ret' = <<ret[1] + elapsed>>
    /\ UNCHANGED <<options, failedBatches, logBackup, sends,
                   retryTimers, sendTimers, delivered, tries, lastOutcome>>

DedupNext ==
  \/ DetectedClickfix
  \/ DebouncedFlush
  \/ \E f \in flushes : BackupGetDone(f)
  \/ \E f \in flushes : BackupSetDone(f)
  \/ \E f \in flushes : BackupFailed(f)
  \/ \E f \in flushes, o \in Outcomes : SpecialResponse(f, o)
  \/ \E f \in flushes : SpecialTimeout(f)

InitDedup ==
  /\ InitState({Config(b, MaxBufferSize, 1, TRUE, TRUE, TRUE) : b \in 1..MaxBatchSize},
               {TRUE}, MaxEvents)
  /\ arg = <<>>
  /\ ret = <<0>>

DedupSpec == InitDedup /\ [][DedupNext]_vars

(* --------------------- the collector comes back ------------------------ *)
\* arg is <<>> while the collector may fail and <<n>> from the moment on which
\* every attempt succeeds, n being statistics.successfulUploads at that moment
Up == arg # None

ConnectivityReturns ==
  /\ ~Up
  /\ arg' = <<statistics.successfulUploads>>
  /\ UNCHANGED <<options, ret, eventsLeft, logBuffer, failedBatches, scheduledFlushTimeout,
                 flushTimers, statistics, logBackup, flushes, sends, retryTimers,
                 sendTimers, nextId, batches, delivered, tries, lastOutcome>>

\* the answer to an attempt: any before the collector is back, 2xx after
Answer(s, o) == (Up => o = "ok") /\ SendResponse(s, o)

\* network requests only, every entry flushed as it is enqueued, one attempt per
\* payload and round
RecoverNext ==
  \/ OnCommitted
  \/ ConnectivityReturns
  \/ \E f \in flushes : BackupGetDone(f)
  \/ \E f \in flushes : BackupSetDone(f)
  \/ \E s \in sends, o \in Outcomes : Answer(s, o)
  \/ \E s \in sends : ~Up /\ SendTimeout(s)

InitRecover ==
  /\ InitState({Config(1, 1, 1, TRUE, FALSE, FALSE)}, {TRUE}, RecoverEvents)
  /\ arg = None
  /\ ret = None

\* every attempt is answered once the collector is back
RecoverSpec ==
  /\ InitRecover
  /\ [][RecoverNext]_vars
  /\ WF_vars(\E s \in sends : Up /\ SendResponse(s, "ok"))

(* ----------------------- the answer to flushLogs ----------------------- *)
\* onMessage flushLogs with its answer: sendLogBatch() runs up to its first
\* await, then sendResponse({ success: true, flushed: logBuffer.length })
FlushLogs ==
  /\ LET m == sendLogBatch(M)
     IN /\ Apply(m)
        /\ ret' = <<[success |-> TRUE, flushed |-> Len(m.logBuffer)]>>
  /\ UNCHANGED <<options, arg, eventsLeft, failedBatches, logBackup,
                 sends, retryTimers, sendTimers, delivered, tries, lastOutcome>>

FlushNext ==
  \/ OnCommitted
  \/ LogJavaScriptExecution
  \/ LogClickfixDetection
  \/ OnInstalled
  \/ OnEnabled
  \/ ScanAllExtensions
  \/ SendTimerFire
  \/ DebouncedFlush
  \/ AlarmFlushLogs
  \/ FlushLogs
  \/ OnSuspend
  \/ \E f \in flushes : BackupGetDone(f)
  \/ \E f \in flushes : BackupSetDone(f)
  \/ \E f \in flushes : BackupFailed(f)
  \/ \E s \in sends, o \in Outcomes : SendResponse(s, o)
  \/ \E s \in sends : SendTimeout(s)
  \/ \E t \in retryTimers : RetryTimerFire(t)
  \/ \E f \in flushes, o \in Outcomes : SpecialResponse(f, o)
  \/ \E f \in flushes : SpecialTimeout(f)

\* the pipeline of Spec, the popup asking for a flush at any moment
FlushSpec == Init /\ [][FlushNext]_vars

(* ------------------- script tracking of a tab's page ------------------- *)
\* During a run of PageSpec arg holds <<pageScripts, loading>>: the Map
\* pageScripts as a function from tab to <<>> or <<entry>>, and the tabs whose
\* committed navigation has not completed yet.  ret holds the pending cleanup
\* timers in scheduling order (all have the delay 60000, so they fire in that
\* order); a timer's closure holds tabId only, `timestamp` records the entry that
\* onCompleted read when it set the timer.
Tabs == {1, 2}
ScriptUrls == {"a.js", "b.js"}

pageScripts == arg[1]
loading == arg[2]
cleanupTimers == ret

\* new Date().toISOString() of the event being handled
Now == PageEvents - eventsLeft + 1

\* the entries the three listeners hand to logEntry: each has a requestId
ScriptEntry(i) == [id |-> i, type |-> "script", requestId |-> TRUE, url |-> TRUE]
SummaryEntry(i) == [id |-> i, type |-> "page_summary", requestId |-> TRUE, url |-> TRUE]

\* webNavigation.onCommitted of the main frame of a tab.  `tracked`: the
\* transition is user-initiated and the URL is neither internal nor whitelisted;
\* otherwise the listener returns before pageScripts.set.
NavigationCommitted(tabId, tracked) ==
  /\ eventsLeft > 0
  /\ eventsLeft' = eventsLeft - 1
  /\ IF tracked
     THEN /\ arg' = <<[pageScripts EXCEPT ![tabId] = <<[timestamp |-> Now, scripts |-> <<>>]>>],
                      loading \cup {tabId}>>
          /\ LET m == logEntry(M, NetworkEntry(nextId))
             IN Apply([m EXCEPT !.statistics = [@ EXCEPT !.totalRequests = @ + 1,
                                                         !.loggedRequests = @ + 1]])
     ELSE /\ arg' = <<pageScripts, loading \cup {tabId}>>
          /\ Apply(M)
  /\ UNCHANGED <<options, ret, failedBatches, logBackup, sends,
                 retryTimers, sendTimers, delivered, tries, lastOutcome>>

\* webRequest.onBeforeRequest of a script that is not whitelisted
ScriptRequested(tabId, url) ==
  /\ eventsLeft > 0
  /\ eventsLeft' = eventsLeft - 1
  /\ IF pageScripts[tabId] # <<>>
        /\ \A i \in 1..Len(pageScripts[tabId][1].scripts) : pageScripts[tabId][1].scripts[i] # url
     THEN /\ arg' = <<[pageScripts EXCEPT ![tabId][1].scripts = Append(@, url)], loading>>
          /\ LET m == logEntry(M, ScriptEntry(nextId))
             IN Apply([m EXCEPT !.statistics = [@ EXCEPT !.loggedRequests = @ + 1]])
     ELSE /\ arg' = arg
          /\ Apply(M)
  /\ UNCHANGED <<options, ret, failedBatches, logBackup, sends,
                 retryTimers, sendTimers, delivered, tries, lastOutcome>>

\* webNavigation.onCompleted of the main frame: the summary entry and
\* setTimeout(() => pageScripts.delete(tabId), 60000) when the tab has an entry
NavigationCompleted(tabId) ==
  /\ tabId \in loading
  /\ arg' = <<pageScripts, loading \ {tabId}>>
  /\ IF pageScripts[tabId] # <<>>
     THEN /\ Apply(logEntry(M, SummaryEntry(nextId)))
          /\ ret' = Append(cleanupTimers,
                           [tabId |-> tabId, timestamp |-> pageScripts[tabId][1].timestamp])
     ELSE /\ Apply(M)
          /\ ret' = ret
  /\ UNCHANGED <<options, eventsLeft, failedBatches, logBackup, sends,
                 retryTimers, sendTimers, delivered, tries, lastOutcome>>

\* the oldest cleanup timer fires: pageScripts.delete(tabId)
CleanupTimerFire ==
  /\ cleanupTimers # <<>>
  /\ arg' = <<[pageScripts EXCEPT ![Head(cleanupTimers).tabId] = <<>>], loading>>
  /\ ret' = Tail(cleanupTimers)
  /\ UNCHANGED <<options, eventsLeft, logBuffer, failedBatches, scheduledFlushTimeout,
                 flushTimers, statistics, logBackup, flushes, sends, retryTimers,
                 sendTimers, nextId, batches, delivered, tries, lastOutcome>>

PageNext ==
  \/ \E tabId \in Tabs, tracked \in BOOLEAN : NavigationCommitted(tabId, tracked)
  \/ \E tabId \in Tabs, url \in ScriptUrls : ScriptRequested(tabId, url)
  \/ \E tabId \in Tabs : NavigationCompleted(tabId)
  \/ CleanupTimerFire

\* URL reporting off: logEntry drops the entries of the three listeners, the
\* tracking of pageScripts goes on
InitPage ==
  /\ InitState({Config(1, 1, 1, FALSE, FALSE, FALSE)}, {TRUE}, PageEvents)
  /\ arg = <<[tabId \in Tabs |-> <<>>], {}>>
  /\ ret = <<>>

PageSpec == InitPage /\ [][PageNext]_vars

\* the periodic 'flushLogs' alarm keeps firing, and pending setTimeout callbacks
\* (debounce, the one-second send after an install) run
TimerSpec ==
  /\ Spec
  /\ WF_vars(AlarmFlushLogs)
  /\ WF_vars(DebouncedFlush)
  /\ WF_vars(SendTimerFire)

\* one more attempt per payload than Spec allows, a batch interval below and one
\* above the debounce cap, two retry delays
InitDelay ==
  InitWith({[Config(MaxBatchSize, MaxBufferSize, MaxRetries + 1, TRUE, TRUE, TRUE)
               EXCEPT !.batchInterval = bi, !.retryDelay = rd] :
              bi \in {DebounceCap \div 5, 2 * DebounceCap},
              rd \in {RetryDelay \div 5, RetryDelay}},
           {TRUE}, MaxEvents)

DelaySpec == InitDelay /\ [][Next]_vars

(* --------------------- saveToLocalBackup on its own -------------------- *)
\* the entries nextId .. nextId + n - 1 as one batch
BackupBatch(n) == [j \in 1..n |-> NetworkEntry(nextId + j - 1)]

\* one call of saveToLocalBackup(logs) run to completion, both storage calls
\* resolving: read, append, limit, write
SaveToLocalBackup(n) ==
  /\ nextId + n - 1 <= MaxBackupEntries
  /\ logBackup' = LimitBackup(logBackup \o BackupBatch(n))
  /\ nextId' = nextId + n
  /\ UNCHANGED <<options, call, eventsLeft, logBuffer, failedBatches, scheduledFlushTimeout,
                 flushTimers, statistics, flushes, sends, retryTimers, sendTimers, batches, delivered,
                 tries, lastOutcome>>

BackupNext == \E n \in 1..CONFIG.batchSize : SaveToLocalBackup(n)

\* successive saveToLocalBackup calls, for storage limits that hold three to twelve
\* entries and batches of up to MaxBatchSize + 1 entries
InitBackup ==
  InitWith({[Config(b, 1, 1, TRUE, TRUE, TRUE) EXCEPT !.maxLocalStorageSize = z * MaxLocalStorage] :
              b \in 1..(MaxBatchSize + 1), z \in 1..4},
           {TRUE}, 0)

BackupSpec == InitBackup /\ [][BackupNext]_vars

TypeOK ==
  /\ eventsLeft >= 0
  /\ Len(logBuffer) < nextId

(* ======================================================================= *)
(* Properties                                                              *)
(* ======================================================================= *)
\* a step in which logEntry was called and enqueued its entry
LogEntryStep ==
  /\ OnCommitted \/ LogJavaScriptExecution \/ LogClickfixDetection
  /\ nextId' = nextId + 1

\* a step of a handler that calls logEntry and nothing after it
PlainLogEntryStep ==
  /\ OnCommitted \/ LogJavaScriptExecution
  /\ nextId' = nextId + 1

\* the entries of the batches taken in this step, oldest first
StepTaken == Concat(SubSeq(batches', Len(batches) + 1, Len(batches')))

\* what the step left of the buffer before any batch was taken from it
StepKept == StepTaken \o logBuffer'

\* s holds exactly the n most recently enqueued entries, oldest first
IsLastEnqueued(s, n, next) ==
  /\ Len(s) = n
  /\ \A j \in 1..n : s[j].id = next - n + j - 1

\* ids that entered logBuffer and left it without being taken into a batch
EvictedIds ==
  {i \in 1..(nextId - 1) :
     /\ i \notin Ids(logBuffer)
     /\ \A b \in 1..Len(batches) : i \notin Ids(batches[b])}

\* C1: after every logEntry call that enqueues, the buffer holds at most
\* maxBufferSize entries, and when the call overflowed the buffer, the entries it
\* kept are exactly the maxBufferSize most recently enqueued ones, oldest first.
C1_BufferBoundedByEviction ==
  [][LogEntryStep =>
       /\ Len(logBuffer') <= CONFIG.maxBufferSize
       /\ (Len(logBuffer) + 1 > CONFIG.maxBufferSize =>
             IsLastEnqueued(StepKept, CONFIG.maxBufferSize, nextId'))]_vars

C1_Witness ==
  /\ EvictedIds # {}
  /\ Len(logBuffer) = CONFIG.maxBufferSize

\* the entry ids carried by the payload built from batch p
PayloadIds(p) == Ids(NetworkLogs(batches[p]))

InFlight(p) == \E s \in sends : s.payload.pid = p

DeadLetterIndexes(p) == {i \in 1..Len(failedBatches) : failedBatches[i].pid = p}

FailedKinds == {"failed", "timeout"}

\* C2: a payload is attempted at most maxRetries times per round; a payload whose
\* maxRetries attempts have all failed is in failedBatches exactly once, and every
\* dead-lettered payload has had exactly maxRetries failed attempts and has none of
\* its entries in logBuffer.
C2_DeadLetterAfterMaxRetries ==
  \A p \in 1..Len(batches) :
    /\ tries[p] <= CONFIG.maxRetries
    /\ Cardinality(DeadLetterIndexes(p)) <= 1
    /\ (DeadLetterIndexes(p) # {} =>
          /\ tries[p] = CONFIG.maxRetries
          /\ \A i \in PayloadIds(p) : lastOutcome[i] \in FailedKinds
          /\ PayloadIds(p) \cap Ids(logBuffer) = {})
    /\ (/\ tries[p] = CONFIG.maxRetries
        /\ ~InFlight(p)
        /\ \E i \in PayloadIds(p) : lastOutcome[i] \in FailedKinds
        => Cardinality(DeadLetterIndexes(p)) = 1)

C2_Witness ==
  /\ CONFIG.maxRetries = 2
  /\ Len(failedBatches) = 1
  /\ tries[failedBatches[1].pid] = 2

\* C3: at most one sendLogBatch invocation is in progress.
C3_OneFlushInProgress == Cardinality(flushes) <= 1

\* C4: the batches taken by sendLogBatch are pairwise disjoint, and no entry that
\* was taken into a batch is still in logBuffer.
C4_BatchesDisjoint ==
  /\ \A a, b \in 1..Len(batches) : a # b => Ids(batches[a]) \cap Ids(batches[b]) = {}
  /\ \A a \in 1..Len(batches) : Ids(batches[a]) \cap Ids(logBuffer) = {}

C4_Witness ==
  /\ Len(batches) = 2
  /\ Cardinality(flushes) = 2

\* C5: a logEntry call starts a flush exactly when it leaves at least batchSize
\* entries in the buffer; every batch holds between 1 and batchSize entries, and
\* the batches of a step are taken from the head: together with what stays in the
\* buffer they are the latest entries in arrival order.
C5_SizeTriggeredFlush ==
  [][/\ PlainLogEntryStep => (batches' # batches <=> Len(StepKept) >= CONFIG.batchSize)
     /\ (LogClickfixDetection /\ Len(StepKept) >= CONFIG.batchSize => batches' # batches)
     /\ \A b \in 1..Len(batches') :
          Len(batches'[b]) >= 1 /\ Len(batches'[b]) <= CONFIG.batchSize
     /\ (batches' # batches => IsLastEnqueued(StepKept, Len(StepKept), nextId'))]_vars

C5_Witness ==
  /\ CONFIG.batchSize = 2
  /\ scheduledFlushTimeout
  /\ \E f \in flushes :
       /\ Len(f.batch) = 2
       /\ f.pc = "backupGet"
       /\ \A i \in 1..2 : f.batch[i].type \in {"main_frame", "javascript_execution"}

BatchOf(i) == CHOOSE b \in 1..Len(batches) : i \in Ids(batches[b])

\* C6 as claimed: within a route, entries are delivered in the order of enqueuing.
C6_DeliveredInEnqueueOrder ==
  \A i, j \in 1..Len(delivered) :
    i < j /\ Route(delivered[i]) = Route(delivered[j]) => delivered[i].id < delivered[j].id

\* C6 amended: batches are taken oldest first, and within a route the entries of
\* one batch are delivered in the order of enqueuing.
C6_InOrderWithinBatch ==
  /\ \A a, b \in 1..Len(batches) :
       a < b => \A x \in Ids(batches[a]), y \in Ids(batches[b]) : x < y
  /\ \A a \in 1..Len(batches) :
       \A i, j \in 1..Len(batches[a]) : i < j => batches[a][i].id < batches[a][j].id
  /\ \A i, j \in 1..Len(delivered) :
       /\ i < j
       /\ Route(delivered[i]) = Route(delivered[j])
       /\ BatchOf(delivered[i].id) = BatchOf(delivered[j].id)
       => delivered[i].id < delivered[j].id

C6_Witness ==
  \E i, j \in 1..Len(delivered) :
    /\ i < j
    /\ Route(delivered[i]) = Route(delivered[j])
    /\ BatchOf(delivered[i].id) = BatchOf(delivered[j].id)

\* entry i is carried by an attempt in flight, a pending retry or a dead letter
HeldForRetry(i) ==
  \/ \E s \in sends : i \in Ids(s.payload.logs)
  \/ \E t \in retryTimers : i \in Ids(t.payload.logs)
  \/ \E k \in 1..Len(failedBatches) : i \in Ids(failedBatches[k].logs)

\* C7: on every route, an entry whose last attempt failed is being retried or is
\* recorded in the dead-letter list.
C7_FailuresRetriedOrDeadLettered ==
  \A i \in 1..(nextId - 1) : lastOutcome[i] \in FailedKinds => HeldForRetry(i)

StateOf(p) ==
  IF InFlight(p) THEN "Sending"
  ELSE IF \E t \in retryTimers : t.payload.pid = p THEN "Retrying"
  ELSE IF DeadLetterIndexes(p) # {} THEN "DeadLettered"
  ELSE IF PayloadIds(p) \subseteq Ids(delivered) THEN "Succeeded"
  ELSE "Pending"

AllowedTransitions ==
  { <<"Pending", "Sending">>, <<"Sending", "Succeeded">>, <<"Sending", "Retrying">>,
    <<"Retrying", "Sending">>, <<"Sending", "DeadLettered">>, <<"DeadLettered", "Sending">> }

AwaitingFetch(fid) == \E f \in flushes : f.fid = fid /\ f.pc \in {"net", "special"}

Running(fid) == \E f \in flushes : f.fid = fid

\* C10: every sendWithRetry attempt in flight completes, a flush waiting for the
\* collector returns, and a payload whose attempt timed out is treated as after
\* any other failure: it is retried or dead-lettered.
C10_AttemptsComplete ==
  /\ \A p \in 1..MaxEvents : InFlight(p) ~> ~InFlight(p)
  /\ \A fid \in 1..MaxEvents : AwaitingFetch(fid) ~> ~Running(fid)
  /\ [](\A p \in 1..Len(batches) :
          (\E i \in PayloadIds(p) : lastOutcome[i] = "timeout") =>
            StateOf(p) \in {"Sending", "Retrying", "DeadLettered"})

C10_Witness ==
  \E t \in retryTimers :
    /\ \A i \in Ids(t.payload.logs) : lastOutcome[i] = "timeout"
    /\ statistics.failedUploads = 1
    /\ flushes = {}

\* the flush has taken its batch and saveToLocalBackup has not yet returned
InBackup(f) == f.pc \in {"backupGet", "backupSet"}

\* a request for an entry of the batch of f has been issued
NetworkStarted(f) ==
  \/ tries[f.fid] > 0
  \/ InFlight(f.fid)
  \/ \E i \in Ids(f.batch) : lastOutcome[i] # "none" \/ i \in Ids(delivered)

\* C11: while a flush is still in saveToLocalBackup, no request for any entry of
\* its batch has been issued; the first request follows the resolved (or rejected
\* and swallowed) storage write.
C11_BackupBeforeNetwork ==
  /\ \A f \in flushes : InBackup(f) => ~NetworkStarted(f)
  /\ \A s \in sends : s.attempt = 0 /\ s.owner # 0 =>
       \E f \in flushes : f.fid = s.owner /\ f.pc = "net"

C11_Witness ==
  \E f \in flushes :
    /\ f.pc = "net"
    /\ InFlight(f.fid)
    /\ Ids(f.batch) \subseteq Ids(logBackup)

\* C12 as claimed: the stored backup never serializes to more than
\* maxLocalStorageSize characters.
C12_BackupWithinLimit == JsonLength(logBackup) <= CONFIG.maxLocalStorageSize

\* the endpoint an entry belongs to by its type
EndpointOfType(t) ==
  IF t = "main_frame" THEN "/api/logs"
  ELSE IF t \in {"clickfix_detection", "extension_security_scan"} THEN "/api/security"
  ELSE "/api/extensions"

IsLogsType(e) == EndpointOfType(e.type) = "/api/logs"

\* every payload that exists for some batch: in flight, waiting for its retry
\* timer, or dead-lettered
Payloads ==
  {s.payload : s \in sends} \cup {t.payload : t \in retryTimers}
    \cup {failedBatches[k] : k \in 1..Len(failedBatches)}

GoesOnAfter(f, n) ==
  IF n < Len(SpecialEvents(f.batch))
  THEN \E g \in flushes' : g.fid = f.fid /\ g.pc = "special" /\ g.i = n + 1
  ELSE \A g \in flushes' : g.fid # f.fid

\* C14: when the request of a special event settles, whatever its outcome, the
\* flush issues the request of the next special event of the batch; when the flush
\* stops waiting for the /api/logs post, whatever its outcome, it issues the first
\* special event; so a flush that has returned has posted every special event of
\* its batch, also those that follow a failed post.
C14_FailureDoesNotStopBatch ==
  /\ [][\A f \in flushes : f \notin flushes' =>
            /\ f.pc = "special" => GoesOnAfter(f, f.i)
            /\ f.pc = "net" => GoesOnAfter(f, 0)]_vars
  /\ [](\A p \in 1..Len(batches) : \A j \in 1..Len(batches[p]) :
          /\ ~Running(p)
          /\ \E k \in 1..(j - 1) : lastOutcome[batches[p][k].id] \in FailedKinds
          /\ IsSpecial(batches[p][j])
          => lastOutcome[batches[p][j].id] # "none")

C14_Witness ==
  \E p \in 1..Len(batches) :
    /\ Len(batches[p]) = 2
    /\ IsSpecial(batches[p][2])
    /\ lastOutcome[batches[p][1].id] \in FailedKinds
    /\ lastOutcome[batches[p][2].id] = "ok"

InBuffer(i) == i \in Ids(logBuffer)

\* C15: with the flush alarm and the pending timers firing, every entry in
\* logBuffer leaves it (taken into a batch or evicted), whether logEntry or a
\* direct push put it there, and without any further entry being enqueued.
C15_EveryEntryLeavesBuffer ==
  \A i \in 1..MaxEvents : InBuffer(i) ~> ~InBuffer(i)

C15_Witness ==
  /\ CONFIG.batchSize = 2
  /\ nextId = 2
  /\ logBuffer = <<>>
  /\ batches # <<>>
  /\ batches[1][1].type \in {"extension_enabled", "extension_security_scan"}

\* C16: at most one debounce timer is pending; its delay is the smaller of
\* batchInterval and 5000 ms; and a logEntry call that enqueues and leaves fewer
\* than batchSize entries (so starts no size flush) leaves a debounce timer pending.
C16_SingleDebounceTimer ==
  /\ [](/\ Len(flushTimers) <= 1
        /\ \A j \in 1..Len(flushTimers) :
             /\ flushTimers[j] <= CONFIG.batchInterval
             /\ flushTimers[j] <= 5000
             /\ flushTimers[j] \in {CONFIG.batchInterval, 5000})
  /\ [][LogEntryStep /\ Len(StepKept) < CONFIG.batchSize => Len(flushTimers') = 1]_vars

C16_Witness ==
  /\ flushTimers = <<5000>>
  /\ CONFIG.batchInterval > 5000
  /\ Len(logBuffer) = 1
  /\ batches = <<>>

C18_BufferWithinCapacity == Len(logBuffer) <= CONFIG.maxBufferSize

\* the counters logEntry updates on every enqueue, evicting or not
EnqueueCounters == {"loggedRequests", "totalRequests", "bytesLogged", "bufferSize"}

\* C19 as claimed: a logEntry call that evicts entries increments a counter of
\* the statistics that an enqueue without eviction leaves alone.
C19_EvictionCounted ==
  [][LogEntryStep /\ Len(logBuffer) + 1 > CONFIG.maxBufferSize =>
       \E c \in DOMAIN statistics \ EnqueueCounters : statistics'[c] > statistics[c]]_vars

\* C20 as claimed: a handler whose logEntry call enqueues its entry adds exactly 1
\* to loggedRequests and the entry's serialized length to bytesLogged, so that
\* loggedRequests is the number of entries enqueued.
C20_LoggedCountsEnqueued ==
  /\ [][LogEntryStep =>
          /\ statistics'.loggedRequests = statistics.loggedRequests + 1
          /\ statistics'.bytesLogged = statistics.bytesLogged + EntryJsonLength]_vars
  /\ [](statistics.loggedRequests = nextId - 1)

\* a step in which the fetch of a network attempt settles, on any endpoint
AttemptCompletes ==
  \/ \E s \in sends, o \in Outcomes : SendResponse(s, o)
  \/ \E s \in sends : SendTimeout(s)
  \/ \E f \in flushes, o \in Outcomes : SpecialResponse(f, o)
  \/ \E f \in flushes : SpecialTimeout(f)

\* C21 as claimed: every completed attempt, on any endpoint, adds one to exactly
\* one of successfulUploads and failedUploads.
C21_EveryAttemptCounted ==
  [][AttemptCompletes =>
       statistics'.successfulUploads + statistics'.failedUploads
         = statistics.successfulUploads + statistics.failedUploads + 1]_vars

\* the numeric counters of the statistics object
Counters ==
  {"totalRequests", "loggedRequests", "successfulUploads", "failedUploads",
   "bytesLogged", "bufferSize", "extensionInstalls", "extensionEvents"}

\* C22: a statistics reset (the step that re-stamps sessionStart) leaves every
\* counter at zero and lastUploadTime null, stamps sessionStart with a later time,
\* and changes nothing else: not the buffer, the dead-letter list, the options, nor
\* any flush, request or timer.
C22_ResetZeroesStatisticsOnly ==
  [][statistics'.sessionStart # statistics.sessionStart =>
       /\ \A c \in Counters : statistics'[c] = 0
       /\ statistics'.lastUploadTime = 0
       /\ statistics'.sessionStart > statistics.sessionStart
       /\ UNCHANGED <<options, call, logBuffer, failedBatches, scheduledFlushTimeout,
                      flushTimers, logBackup, flushes, sends, retryTimers, sendTimers,
                      nextId, batches>>]_vars

C22_Witness ==
  /\ statistics.sessionStart = 1
  /\ \A c \in Counters : statistics[c] = 0
  /\ Len(logBuffer) = 1
  /\ Len(failedBatches) = 1

\* the step put a new entry of type t into logBuffer (it may have been taken into
\* a batch by the same step)
Enqueued(t) ==
  /\ nextId' = nextId + 1
  /\ \E k \in 1..Len(StepKept) : StepKept[k].id = nextId /\ StepKept[k].type = t

\* the step left the buffer, the batches and the flushes as they were
NothingEnqueued ==
  /\ nextId' = nextId
  /\ UNCHANGED <<logBuffer, batches, flushes, flushTimers, scheduledFlushTimeout>>

\* C23: a network entry passed to logEntry is enqueued if enableReportUrls is on
\* and otherwise dropped with the buffer unchanged, whatever the other two flags;
\* likewise a javascript_execution entry with enableJsExecution and a
\* clickfix_detection entry with enableClickfix (whose handler goes on to flush
\* what the buffer already held).
C23_FlagsGateOwnCategory ==
  [][/\ OnCommitted =>
          IF CONFIG.enableReportUrls THEN Enqueued("main_frame") ELSE NothingEnqueued
     /\ LogJavaScriptExecution =>
          IF CONFIG.enableJsExecution THEN Enqueued("javascript_execution")
          ELSE NothingEnqueued
     /\ LogClickfixDetection =>
          IF CONFIG.enableClickfix THEN Enqueued("clickfix_detection")
          ELSE nextId' = nextId /\ StepKept = logBuffer]_vars

C23_Witness ==
  /\ ~CONFIG.enableReportUrls
  /\ ~CONFIG.enableClickfix
  /\ CONFIG.enableJsExecution
  /\ eventsLeft = 0
  /\ Len(logBuffer) = 1
  /\ logBuffer[1].type = "javascript_execution"
  /\ statistics.totalRequests = 1

SensitiveNames == {SensitiveParams[k] : k \in 1..Len(SensitiveParams)}

\* a and b have the same shape and differ at most in the values of sensitive
\* query parameters and sensitive headers
SameButSecrets(a, b) ==
  /\ a.url.ok = b.url.ok
  /\ a.url.normal = b.url.normal
  /\ Len(a.url.query) = Len(b.url.query)
  /\ \A i \in 1..Len(a.url.query) :
       /\ a.url.query[i].name = b.url.query[i].name
       /\ a.url.query[i].name \notin SensitiveNames =>
            a.url.query[i].value = b.url.query[i].value
  /\ Len(a.requestHeaders) = Len(b.requestHeaders)
  /\ \A i \in 1..Len(a.requestHeaders) :
       /\ a.requestHeaders[i].name = b.requestHeaders[i].name
       /\ toLowerCase(a.requestHeaders[i].name) \notin SensitiveHeaders =>
            a.requestHeaders[i].value = b.requestHeaders[i].value

\* C24: in the buffered event of an entry with a well-formed URL every sensitive
\* query parameter that was present is present with the value [REDACTED], and every
\* sensitive request header has the value [REDACTED]; any entry that differs from
\* it only in those values yields the same buffered event; an entry with a
\* malformed URL keeps its URL unchanged.
C24_SensitiveValuesRedacted ==
  ret # None =>
    LET data == arg[1]
        sanitized == ret[1]
    IN
    /\ data.url.ok =>
         /\ \A i \in 1..Len(sanitized.url.query) :
              sanitized.url.query[i].name \in SensitiveNames => sanitized.url.query[i].value = Redacted
         /\ \A n \in SensitiveNames : Has(data.url.query, n) => Has(sanitized.url.query, n)
         /\ \A b \in SanitizeInputs : SameButSecrets(data, b) => sanitizeData(b) = sanitized
    /\ Len(sanitized.requestHeaders) = Len(data.requestHeaders)
    /\ \A i \in 1..Len(sanitized.requestHeaders) :
         /\ sanitized.requestHeaders[i].name = data.requestHeaders[i].name
         /\ toLowerCase(sanitized.requestHeaders[i].name) \in SensitiveHeaders =>
              sanitized.requestHeaders[i].value = Redacted
    /\ ~data.url.ok => sanitized.url = data.url

C24_Witness ==
  /\ ret # None
  /\ arg[1].url.ok
  /\ arg[1].url.query = <<[name |-> "token", value |-> "a"], [name |-> "token", value |-> "b"]>>
  /\ arg[1].requestHeaders = <<[name |-> "Authorization", value |-> "a"]>>
  /\ ret[1].url.query = <<[name |-> "token", value |-> Redacted]>>

\* the value the payload carries for property f of an entry, d when it is missing
ValueOr(log, f, d) == IF f \in DOMAIN log THEN log[f] ELSE d

C26_GzipHeaderIffCompressed ==
  ret # None =>
    \A i \in 1..Len(ret[1]) :
      LET request == ret[1][i]
      IN /\ (ContentEncoding \in request.headers) <=> request.body.gzip
         /\ CONFIG.enableCompression => request.body.gzip

\* the minimum length of the path a text came in by
Floor(source) == IF source = "copy_event" THEN 30 ELSE 20

\* the words that make a text terminal-like for the copy listener or detectClickfix
TerminalMarkers == {"powershell", "iex", "cmd", "mshta", "Execute(", "curl", "url"}

\* shell-command and scripting-API markers
HighConfidenceMarkers == {"powershell", "iex", "mshta", "Execute("}

FromHandler == ret # None /\ ret[1].source \in {"copy_event", "clipboard_writeText_api"}

\* C27: a copied or clipboard-written text shorter than the minimum length of its
\* path (30 copied, 20 written) that holds no terminal-like marker is not handed to
\* detectClickfix and nothing is reported for it.
C27_ShortPlainTextIgnored ==
  (/\ FromHandler
   /\ Length(Trim(arg[1])) < Floor(ret[1].source)
   /\ ~HasWord(arg[1], TerminalMarkers))
    => ~ret[1].evaluated /\ ret[1].local = <<>> /\ ret[1].sent = <<>>

C27_Witness ==
  /\ FromHandler
  /\ ret[1].source = "copy_event"
  /\ arg[1].tokens = <<Word("-Enc", 4), Word("text", 22)>>
  /\ detectClickfix(arg[1]) # <<>>
  /\ ret[1].sent = <<>>

\* C28: a text below the minimum length of its path that holds a shell-command
\* or scripting-API marker is still handed to detectClickfix, on the copy path and
\* on the clipboard-write path.
C28_ShortMarkedTextEvaluated ==
  (/\ FromHandler
   /\ Length(Trim(arg[1])) > 0
   /\ Length(Trim(arg[1])) < Floor(ret[1].source)
   /\ HasWord(arg[1], HighConfidenceMarkers))
    => ret[1].evaluated

\* powershell -EncodedCommand aGVsbG93b3JsZGhlbGxvd29ybGRoZWxsb3dvcmxkaGVsbG93b3JsZA==
\* 83 characters, 54 of them the base64 run before ==, entropy 4.74
EncodedSample ==
  [pad |-> 0,
   tokens |-> <<Word("powershell", 10), Word("-EncodedCommand", 15), Word("base64", 54)>>,
   highEntropy |-> TRUE]

InTags(detection, tag) == \E i \in 1..Len(detection.issues) : detection.issues[i] = tag

\* C29: for the sample powershell -EncodedCommand <54 base64 characters>==
\* detectClickfix returns a verdict of score at least 85 whose tags include
\* encoded_command_flag and base64_encoded_command.
C29_EncodedSampleVerdict ==
  (ret # None /\ ret[1].source = "detectClickfix" /\ arg[1] = EncodedSample) =>
    /\ ret[1].local # <<>>
    /\ ret[1].local[1].riskScore >= 85
    /\ InTags(ret[1].local[1], "encoded_command_flag")
    /\ InTags(ret[1].local[1], "base64_encoded_command")

C29_Witness ==
  /\ ret # None
  /\ ret[1].source = "detectClickfix"
  /\ arg[1] = EncodedSample
  /\ ret[1].local # <<>>
  /\ ret[1].local[1].riskScore = 100

\* C30: every detection a handler holds after its boost, and every detection sent
\* to the background, has a score in 0..100 and a preview of at most 500 characters.
C30_ScoreAndPreviewBounded ==
  ret # None =>
    \A detection \in {ret[1].local[i] : i \in 1..Len(ret[1].local)}
                       \cup {ret[1].sent[i] : i \in 1..Len(ret[1].sent)} :
      /\ detection.riskScore >= 0
      /\ detection.riskScore <= 100
      /\ detection.codePreview <= 500

C30_Witness ==
  /\ ret # None
  /\ ret[1].source = "clipboard_writeText_api"
  /\ arg[2]
  /\ Scored(arg[1]).riskScore > 100
  /\ Length(Trim(arg[1])) > 500
  /\ ret[1].sent # <<>>
  /\ ret[1].sent[1].riskScore = 100
  /\ ret[1].sent[1].codePreview = 500
  /\ InTags(ret[1].sent[1], "programmatic_clipboard_write")

\* the cut of the class a text belongs to
ClassThreshold(scored) == IF scored.isTerminalCode THEN 40 ELSE 50

\* C31: detectClickfix returns a verdict exactly when the unclamped score reaches
\* 40 for a text with a PowerShell, Windows-executable or VBScript marker and 50
\* for any other text; a terminal-like text with two or more tags never has a score
\* below 40.
C31_VerdictIffThresholdReached ==
  (ret # None /\ ret[1].source = "detectClickfix") =>
    LET scored == Scored(arg[1])
    IN /\ (ret[1].local # <<>>) <=>
            (Length(arg[1]) > 0 /\ scored.riskScore >= ClassThreshold(scored))
       /\ (scored.isTerminalCode /\ Len(scored.issues) >= 2) => scored.riskScore >= 40

C31_Witness ==
  /\ ret # None
  /\ ret[1].source = "detectClickfix"
  /\ Scored(arg[1]).isTerminalCode
  /\ Scored(arg[1]).riskScore = 45
  /\ Len(Scored(arg[1]).issues) = 2
  /\ ret[1].local # <<>>
  /\ ret[1].local[1].riskScore = 45

\* the request that carries event i to its endpoint has been issued
Posted(i) ==
  \/ lastOutcome[i] # "none"
  \/ \E f \in flushes : f.pc = "special" /\ CurrentSpecial(f).id = i

\* C32: of two detections of the same content less than 15 seconds apart at most
\* one is sent to /api/security.
C32_ClickfixDeduplicated ==
  \A i, j \in 1..Len(arg) :
    (/\ i < j
     /\ arg[i].content = arg[j].content
     /\ arg[j].time - arg[i].time < DedupTtl)
      => ~(Posted(arg[i].id) /\ Posted(arg[j].id))

\* in how many of the situations in flight, retry pending, dead-lettered and
\* delivered the payload of batch p is
Situations(p) ==
  Cardinality({s \in sends : s.payload.pid = p})
    + Cardinality({t \in retryTimers : t.payload.pid = p})
    + Cardinality(DeadLetterIndexes(p))
    + (IF PayloadIds(p) \subseteq Ids(delivered) THEN 1 ELSE 0)

\* C33: a payload handed to sendWithRetry is in exactly one of the situations
\* attempt in flight, retry timer pending, dead-lettered, delivered; so it is never
\* dead-lettered and in flight at once, nor dead-lettered twice, and no entry is
\* delivered twice.
C33_PayloadInOnePlace ==
  /\ \A p \in 1..Len(batches) :
       (PayloadIds(p) # {} /\ tries[p] >= 1) => Situations(p) = 1
  /\ \A i, j \in 1..Len(delivered) : delivered[i].id = delivered[j].id => i = j

C33_Witness ==
  \E p \in 1..Len(batches) :
    /\ InFlight(p)
    /\ failedBatches = <<>>
    /\ statistics.successfulUploads = 1
    /\ \A i \in PayloadIds(p) : lastOutcome[i] \in FailedKinds
    /\ Situations(p) = 1

\* C34: a storage write of saveToLocalBackup whose batch fits beside what the
\* backup holds removes nothing from the backup: the entries another flush wrote
\* in the meantime are still there, so the backup ends up with both batches.
C34_NoLostBackupUpdate ==
  [][\A f \in flushes :
       (/\ BackupSetDone(f)
        /\ JsonLength(logBackup \o f.batch) <= CONFIG.maxLocalStorageSize)
         => Ids(logBackup) \subseteq Ids(logBackup')]_vars

\* an attempt has succeeded since the collector is back
SuccessSinceUp == Up /\ statistics.successfulUploads > arg[1]

\* the attempts in flight whose payload comes from the dead-letter list
DrainedInFlight ==
  {s \in sends : s.attempt = 0 /\ \E i \in Ids(s.payload.logs) : lastOutcome[i] \in FailedKinds}

\* a step of retryFailedBatches that takes a dead letter
DrainStep == failedBatches # <<>> /\ failedBatches' = Tail(failedBatches)

\* C35 as claimed: once the collector is back, one successful delivery leads to
\* an empty dead-letter list, and the drained payloads are delivered oldest first:
\* a dead letter is taken only when every dead letter taken before it has been
\* delivered.
C35_DrainedAndDeliveredInOrder ==
  /\ SuccessSinceUp ~> (failedBatches = <<>>)
  /\ [][(Up /\ DrainStep) => Cardinality(DrainedInFlight') <= 1]_vars

\* C35 amended: once the collector is back, one successful delivery leads to an
\* empty dead-letter list that stays empty, and every dead letter is taken from
\* the head of the list and sent at attempt 0.
C35_DrainedOldestFirstUntilEmpty ==
  /\ SuccessSinceUp ~> (failedBatches = <<>>)
  /\ [][(Up /\ failedBatches = <<>>) => failedBatches' = <<>>]_vars
  /\ [][(Up /\ DrainStep) =>
          \E s \in sends' \ sends :
            /\ s.payload = Head(failedBatches)
            /\ s.attempt = 0
            /\ sends' \ sends = {s}]_vars

C35_Witness ==
  /\ SuccessSinceUp
  /\ failedBatches = <<>>
  /\ sends = {}
  /\ statistics.failedUploads = 2
  /\ Len(delivered) = 3
  /\ arg[1] = 0

\* C36: a logClickfixDetection message handled with enableClickfix on and fewer
\* than batchSize events in the buffer leaves its event in a batch taken by the
\* handler itself, and not in the buffer.
C36_ClickfixTakenAtOnce ==
  [][(LogClickfixDetection /\ CONFIG.enableClickfix /\ Len(logBuffer) < CONFIG.batchSize) =>
       /\ nextId \notin Ids(logBuffer')
       /\ \E k \in (Len(batches) + 1)..Len(batches') : nextId \in Ids(batches'[k])]_vars

\* the handler has sent a clickfix event that logEntry had left to the debounce timer
C36_Witness ==
  /\ CONFIG.batchSize = 2
  /\ logBuffer = <<>>
  /\ scheduledFlushTimeout
  /\ batches # <<>>
  /\ Len(batches[Len(batches)]) = 1
  /\ batches[Len(batches)][1].type = "clickfix_detection"

\* the copy listener boosted the detection it held: the text passed the risk
\* check and holds an encoded-command marker or an execution-policy bypass
CopyBoosted ==
  /\ ret # None
  /\ ret[1].source = "copy_event"
  /\ ret[1].local # <<>>
  /\ InTags(ret[1].local[1], "encoded_command_or_bypass")

\* C37: when the copied text passes the copy-event risk check and holds an
\* encoded-command marker or an execution-policy bypass, the detection sent to the
\* background has the score of detectClickfix plus 20, capped at 100, and the tag
\* encoded_command_or_bypass.
C37_CopyBoostReported ==
  CopyBoosted =>
    /\ Len(ret[1].sent) = 1
    /\ ret[1].sent[1].riskScore = Min(detectClickfix(Trim(arg[1]))[1].riskScore + 20, 100)
    /\ InTags(ret[1].sent[1], "encoded_command_or_bypass")

\* C38: the answer to a flushLogs message reports in flushed the number of events
\* the flush removed from the buffer.
C38_FlushedCountsRemoved ==
  [][FlushLogs => ret'[1].flushed = Len(logBuffer) - Len(logBuffer')]_vars

\* C39: the entry that a user-initiated navigation put in pageScripts stays until
\* the cleanup of that same page: a cleanup timer set when an earlier page of the
\* tab finished loading leaves the entry of a later navigation in place.
C39_CleanupSparesLaterPage ==
  [][(/\ CleanupTimerFire
      /\ pageScripts[Head(cleanupTimers).tabId] # <<>>
      /\ pageScripts[Head(cleanupTimers).tabId][1].timestamp # Head(cleanupTimers).timestamp)
       => pageScripts'[Head(cleanupTimers).tabId] = pageScripts[Head(cleanupTimers).tabId]]_vars

====
